---------------------------- MODULE Spec2Model ----------------------------
(***************************************************************************)
(* A model of the nw-tex binary format engine: the BLZ compression codec   *)
(* (src/util/blz.rs), the write context and the CGFX dictionary/container  *)
(* reader and writer (src/bcres/bcres.rs, src/bcres/texture.rs), and the   *)
(* archive registry reader (src/lib.rs).                                   *)
(*                                                                         *)
(* Buffers are sequences of bytes 0..255.  TLA+ sequences are 1-based, the *)
(* code's offsets are 0-based: At(buf, i) is the code's buf[i].            *)
(* u32 values that may exceed 2^31 - 1 are kept as their four bytes.       *)
(***************************************************************************)
EXTENDS Integers, Sequences, FiniteSets, TLC

VARIABLES
    overflow_checks,      \* build profile: TRUE = debug (arithmetic overflow panics), FALSE = release (wraps)
    \* ---- blz_encode / blz_decode (src/util/blz.rs)
    blz_pc,               \* position of the codec run
    blz_error,            \* why a run ended in a panic or an Err ("" otherwise)
    original_input,       \* ghost: the caller's buffer as it was when blz_encode was called
    input_buffer,         \* blz_encode: the caller's buffer (&mut [u8]), mutated in place
    input_position,       \* blz_encode: input.position()
    result_buffer,        \* blz_encode: result_buffer
    flag_index,           \* blz_encode: flag_index
    mask,                 \* blz_encode: mask
    input_bytes_left,     \* blz_encode: input_bytes_left
    result_bytes_written, \* blz_encode: result_bytes_written
    position_best,        \* blz_encode: position_best (NoPosition = None)
    container_buffer,     \* blz_encode: the returned container / blz_decode: input_buffer
    encoded_buffer,       \* blz_decode: encoded_buffer (reversed encoded region)
    encoded_position,     \* blz_decode: encoded.position()
    d_mask,               \* blz_decode: mask
    d_flags,              \* blz_decode: flags
    d_result,             \* blz_decode: result_buffer
    result_size,          \* blz_decode: result_size
    unencoded_length,     \* blz_decode: unencoded_length
    \* ---- WriteContext (src/bcres/bcres.rs)
    string_section,       \* ctx.string_section
    pool_prev,            \* ghost: string_section before the last add_string call
    pool_last,            \* ghost: the argument of the last add_string call
    pool_calls,           \* ghost: number of add_string calls made by the caller
    \* ---- CgfxContainer / CgfxDict writer (src/bcres/bcres.rs, src/bcres/texture.rs)
    container,            \* to_buffer: self (header.file_length and the Textures slot)
    dict,                 \* CgfxDict::to_writer: self
    w_direct,             \* TRUE when CgfxDict::to_writer is called on its own, not by to_buffer
    w_pc,                 \* position of the writer
    w_error,              \* why the writer ended in a panic or an Err ("" otherwise)
    out,                  \* to_buffer: out (the writer's position is its end between steps)
    w_node,               \* CgfxDict::to_writer: number of nodes written so far
    string_references,    \* ctx.string_references (HashMap: pairs of location and string)
    image_section,        \* ctx.image_section
    image_references,     \* ctx.image_references (HashMap: pairs of location and offset)
    string_section_start, \* to_buffer: string_section_start
    image_section_offset, \* to_buffer: image_section_offset
    round,                \* ghost: 1 while the given container is written, 2 while the parsed one is
    original,             \* ghost: the container given to the first to_buffer
    \* ---- CgfxContainer::new (src/bcres/bcres.rs)
    file,                 \* the buffer given to CgfxContainer::new
    r_pc,                 \* position of the reader
    r_error,              \* why the reader ended in a panic or an Err ("" otherwise)
    parsed,               \* the container CgfxContainer::new returned
    dicts_read,           \* ghost: every dictionary CgfxDict::from_reader returned, with its offset
    reads,                \* ghost: log of the reads made through pointer fields
    encoded_file,         \* ghost: the buffer the first to_buffer returned
    \* ---- ArchiveRegistry::new / RegistryItem::read (src/lib.rs)
    reg_buffer,           \* buffer
    reg_pc,               \* position of the registry reader
    reg_error,            \* why the registry reader ended in a panic or an Err
    reg_position,         \* cursor.position()
    item_count,           \* item_count
    items,                \* items
    reg_reads,            \* ghost: log of the string reads made through id pointers
    codec_pc,             \* position of decode_swizzled_buffer
    codec_error,          \* why decode_swizzled_buffer ended in a panic or an Err
    input_format,         \* decode_swizzled_buffer: input_format
    width,                \* decode_swizzled_buffer: width
    height,               \* decode_swizzled_buffer: height
    image_buffer,         \* decode_swizzled_buffer: image_buffer
    input_offset,         \* decode_swizzled_buffer: input_offset
    output,               \* decode_swizzled_buffer: output
    chunk_x,              \* decode_swizzled_buffer: x of the chunk loop
    chunk_y,              \* decode_swizzled_buffer: y of the chunk loop
    write_count,          \* ghost: how often each index of output was assigned
    sub_block,            \* decode_etc1: how many 4x4 blocks of the chunk are decoded
    current_chunk,        \* decode_etc1: current_chunk of the block decoded last
    chunk_writes          \* ghost: the assignments to current_chunk, in order

blz_vars == <<blz_pc, blz_error, original_input, input_buffer, input_position,
              result_buffer, flag_index, mask, input_bytes_left,
              result_bytes_written, position_best, container_buffer,
              encoded_buffer, encoded_position, d_mask, d_flags, d_result,
              result_size, unencoded_length>>

pool_vars == <<string_section, pool_prev, pool_last, pool_calls>>

writer_vars == <<container, dict, w_direct, w_pc, w_error, out, w_node,
                 string_references, image_section, image_references,
                 string_section_start, image_section_offset, round, original>>

reader_vars == <<file, r_pc, r_error, parsed, dicts_read, reads, encoded_file>>

cgfx_vars == <<writer_vars, reader_vars>>

reg_vars == <<reg_buffer, reg_pc, reg_error, reg_position, item_count, items,
              reg_reads>>

etc1_vars == <<sub_block, current_chunk, chunk_writes>>

codec_vars == <<codec_pc, codec_error, input_format, width, height,
                image_buffer, input_offset, output, chunk_x, chunk_y,
                write_count, etc1_vars>>

vars == <<overflow_checks, blz_vars, pool_vars, cgfx_vars, reg_vars,
          codec_vars>>

\* What the codec's actions leave alone
not_blz == <<pool_vars, cgfx_vars, reg_vars, codec_vars>>

\* What the write context's own actions leave alone
not_pool == <<overflow_checks, blz_vars, cgfx_vars, reg_vars, codec_vars>>

\* What the container's actions leave alone
not_cgfx == <<overflow_checks, blz_vars, pool_prev, pool_last, pool_calls,
              reg_vars, codec_vars>>

\* What the registry reader's actions leave alone
not_reg == <<overflow_checks, blz_vars, pool_vars, cgfx_vars, codec_vars>>

\* No container is being written or read
CgfxIdle ==
    /\ container = [some |-> FALSE]
    /\ dict = [some |-> FALSE]
    /\ w_direct = FALSE
    /\ w_pc = "idle"
    /\ w_error = ""
    /\ out = <<>>
    /\ w_node = 0
    /\ string_references = {}
    /\ image_section = <<>>
    /\ image_references = {}
    /\ string_section_start = 0
    /\ image_section_offset = 0
    /\ round = 0
    /\ original = [some |-> FALSE]
    /\ file = <<>>
    /\ r_pc = "idle"
    /\ r_error = ""
    /\ parsed = [some |-> FALSE]
    /\ dicts_read = <<>>
    /\ reads = <<>>
    /\ encoded_file = <<>>

\* No registry is being read
RegIdle ==
    /\ reg_buffer = <<>>
    /\ reg_pc = "idle"
    /\ reg_error = ""
    /\ reg_position = 0
    /\ item_count = 0
    /\ items = <<>>
    /\ reg_reads = <<>>

\* No image is being decoded
CodecIdle ==
    /\ codec_pc = "idle"
    /\ codec_error = ""
    /\ input_format = ""
    /\ width = 0
    /\ height = 0
    /\ image_buffer = <<>>
    /\ input_offset = 0
    /\ output = <<>>
    /\ chunk_x = 0
    /\ chunk_y = 0
    /\ write_count = <<>>
    /\ sub_block = 0
    /\ current_chunk = <<>>
    /\ chunk_writes = <<>>

----------------------------------------------------------------------------
(* Bytes, sequences and fixed-width integers                               *)

Byte == 0..255

At(buf, i) == buf[i + 1]

Min(S) == CHOOSE x \in S : \A y \in S : x <= y

Max2(a, b) == IF a >= b THEN a ELSE b

Min2(a, b) == IF a <= b THEN a ELSE b

RECURSIVE Reverse(_)
Reverse(s) == IF s = <<>> THEN <<>> ELSE Append(Reverse(Tail(s)), Head(s))

\* n copies of the byte b
Repeat(b, n) == [i \in 1..n |-> b]

\* buf[from..to] of the code (to exclusive)
Slice(buf, from, to) == SubSeq(buf, from + 1, to)

\* All sequences over S of length lo..hi
SeqsOf(S, lo, hi) == UNION {[1..n -> S] : n \in lo..hi}

\* The four little-endian bytes of n modulo 2^32 (n may be negative: a wrapped
\* u32 subtraction)
U32Bytes(n) == <<n % 256, (n \div 256) % 256, (n \div 65536) % 256,
                 (n \div 16777216) % 256>>

\* The three little-endian bytes of write_u24
U24Bytes(n) == <<n % 256, (n \div 256) % 256, (n \div 65536) % 256>>

\* The low 24 bits of the little-endian u32 at offset i
Low24At(buf, i) == At(buf, i) + 256 * At(buf, i + 1) + 65536 * At(buf, i + 2)

\* The top byte of the little-endian u32 at offset i
HighByteAt(buf, i) == At(buf, i + 3)

\* v << 1 on a u8
Shl1U8(v) == (2 * v) % 256

\* bit test flags & mask for a one-bit mask
BitSet(flags, m) == (flags \div m) % 2 = 1

----------------------------------------------------------------------------
(* src/util/blz.rs                                                         *)

RAW_MAXIM == 16777215
BLZ_SHIFT == 1
BLZ_MASK == 128
BLZ_THRESHOLD == 2
BLZ_MAX_OFFSET == 4098
BLZ_MAX_CODED == 18

\* Option<u32>::None for position_best
NoPosition == -1

RECURSIVE FindLength(_, _, _, _)
\* search: the closure of (0..BLZ_MAX_CODED).find(..).unwrap_or(BLZ_MAX_CODED)
FindLength(buf, pos, current_position, current_length) ==
    IF current_length = BLZ_MAX_CODED THEN BLZ_MAX_CODED
    ELSE IF \/ pos + current_length = Len(buf)
            \/ current_length >= current_position
            \/ At(buf, pos + current_length)
                 # At(buf, pos + current_length - current_position)
         THEN current_length
         ELSE FindLength(buf, pos, current_position, current_length + 1)

RECURSIVE SearchLoop(_, _, _, _, _, _)
\* search: the loop for current_position in 3..=max
SearchLoop(buf, pos, current_position, max, length_result, position_result) ==
    IF current_position > max
    THEN [length |-> length_result, position |-> position_result]
    ELSE LET length == FindLength(buf, pos, current_position, 0) IN
         IF length > length_result
         THEN IF length = BLZ_MAX_CODED
              THEN [length |-> length, position |-> current_position]
              ELSE SearchLoop(buf, pos, current_position + 1, max, length,
                              current_position)
         ELSE SearchLoop(buf, pos, current_position + 1, max, length_result,
                         position_result)

\* The scan of the distances begun at 4
search_from_four(buf, pos, prev_position_result) ==
    SearchLoop(buf, pos, 4, Min2(pos, BLZ_MAX_OFFSET), BLZ_THRESHOLD,
               prev_position_result)

search(buf, pos, prev_position_result) ==
    SearchLoop(buf, pos, 3, Min2(pos, BLZ_MAX_OFFSET), BLZ_THRESHOLD,
               prev_position_result)


\* Bounds of the input buffers of blz_encode
MaxHead == 1
MaxPeriod == 2
MaxBody == 21

\* The byte values input buffers are drawn from
InputBytes == {0, 1}

RECURSIVE Cycle(_, _)
\* the first n bytes of pattern repeated for ever
Cycle(pattern, n) ==
    IF n = 0 THEN <<>>
    ELSE Append(Cycle(pattern, n - 1), pattern[((n - 1) % Len(pattern)) + 1])

\* Input buffers: a free head followed by a periodic body (what an LZ coder
\* compresses), of every length up to MaxHead + MaxBody
BlzInputs ==
    {head \o Cycle(pattern, n) :
        head \in SeqsOf(InputBytes, 0, MaxHead),
        pattern \in SeqsOf(InputBytes, 1, MaxPeriod),
        n \in 0..MaxBody}

BlzIdle ==
    /\ input_position = 0
    /\ result_buffer = <<>>
    /\ flag_index = 0
    /\ mask = 0
    /\ input_bytes_left = 0
    /\ result_bytes_written = 0
    /\ position_best = NoPosition
    /\ container_buffer = <<>>
    /\ encoded_buffer = <<>>
    /\ encoded_position = 0
    /\ d_mask = 0
    /\ d_flags = 0
    /\ d_result = <<>>
    /\ result_size = 0
    /\ unencoded_length = 0

InitBlz ==
    /\ overflow_checks \in BOOLEAN
    /\ blz_pc = "call_encode"
    /\ blz_error = ""
    /\ input_buffer \in BlzInputs
    /\ original_input = input_buffer
    /\ BlzIdle
    /\ string_section = <<>>
    /\ pool_prev = <<>>
    /\ pool_last = <<>>
    /\ pool_calls = 0
    /\ CgfxIdle
    /\ RegIdle
    /\ CodecIdle

decode_vars == <<encoded_buffer, encoded_position, d_mask, d_flags, d_result,
                 result_size, unencoded_length>>

encode_vars == <<original_input, input_buffer, input_position, result_buffer,
                 flag_index, mask, input_bytes_left, result_bytes_written,
                 position_best>>

\* blz_encode, lines 138-156: reverse the caller's buffer in place, set up
EncodeBegin ==
    /\ blz_pc = "call_encode"
    /\ input_buffer' = Reverse(input_buffer)
    /\ input_position' = 0
    /\ result_buffer' = <<>>
    /\ flag_index' = 0
    /\ mask' = 0
    /\ input_bytes_left' = Len(input_buffer)
    /\ result_bytes_written' = 0
    /\ position_best' = NoPosition
    /\ blz_pc' = "encode_loop"
    /\ UNCHANGED <<overflow_checks, blz_error, original_input, container_buffer,
                   decode_vars>>
    /\ UNCHANGED not_blz

\* blz_encode, lines 158-202: one iteration of the main loop
EncodeStep ==
    /\ blz_pc = "encode_loop"
    /\ input_position < Len(input_buffer)
    /\ LET shifted == mask \div 2
           new_flag == shifted = 0
           fi == IF new_flag THEN Len(result_buffer) ELSE flag_index
           rb1 == IF new_flag THEN Append(result_buffer, 0) ELSE result_buffer
           found == search(input_buffer, input_position, position_best)
           rb2 == [rb1 EXCEPT ![fi + 1] = Shl1U8(@)]
           coded == found.length > BLZ_THRESHOLD
           rb3 == IF coded
                  THEN [rb2 EXCEPT ![fi + 1] = @ + 1]
                         \o << (found.length - (BLZ_THRESHOLD + 1)) * 16
                                 + ((found.position - 3) \div 256),
                               (found.position - 3) % 256 >>
                  ELSE Append(rb2, At(input_buffer, input_position))
           pos == IF coded THEN input_position + found.length
                  ELSE input_position + 1
           remaining_input_bytes == Len(input_buffer) - pos
           new_result_approximation == Len(rb3) + remaining_input_bytes
           previous_result_approximation ==
               input_bytes_left + result_bytes_written
           better == new_result_approximation < previous_result_approximation
       IN /\ mask' = IF new_flag THEN BLZ_MASK ELSE shifted
          /\ flag_index' = fi
          /\ position_best' = found.position
          /\ result_buffer' = rb3
          /\ input_position' = pos
          /\ input_bytes_left' =
                IF better THEN remaining_input_bytes ELSE input_bytes_left
          /\ result_bytes_written' =
                IF better THEN Len(rb3) ELSE result_bytes_written
    /\ UNCHANGED <<overflow_checks, blz_pc, blz_error, original_input,
                   input_buffer, container_buffer, decode_vars>>
    /\ UNCHANGED not_blz

RECURSIVE FlushFlags(_, _)
\* blz_encode, lines 204-207: shift the last flag byte into place
FlushFlags(m, flag) ==
    IF m # 0 /\ m # 1 THEN FlushFlags(m \div 2, Shl1U8(flag)) ELSE flag

\* mutant of RestoreInput: the second reversal is forgotten
RestoreInputSkipped(buf) == buf

\* blz_encode, line 209: the working buffer is reversed back
RestoreInput(buf) == Reverse(buf)

\* (x + 3) & (u32::MAX - 3)
AlignDown4(x) == x - (x % 4)

\* blz_encode, line 214
idk(input_length, written, left) ==
    input_length + 4 < AlignDown4(written + left + 3) + 8

RECURSIVE PadTo4(_)
\* blz_encode, lines 234-237
PadTo4(buf) == IF Len(buf) % 4 # 0 THEN PadTo4(Append(buf, 255)) ELSE buf

\* blz_encode, lines 204-244: end of the loop, footer and return
EncodeFinish ==
    /\ blz_pc = "encode_loop"
    /\ input_position >= Len(input_buffer)
    /\ LET rb == IF result_buffer = <<>> THEN result_buffer
                 ELSE [result_buffer EXCEPT
                         ![flag_index + 1] = FlushFlags(mask, @)]
           restored == RestoreInput(input_buffer)
           input_length == Len(restored)
           body == Slice(restored, 0, input_bytes_left)
                     \o Slice(rb, Len(rb) - result_bytes_written, Len(rb))
           size_increase ==
               input_length - input_bytes_left - result_bytes_written
           padded == PadTo4(body)
           header_length == 8 + (Len(padded) - Len(body))
           stored == size_increase - header_length
       IN /\ result_buffer' = rb
          /\ input_buffer' = restored
          /\ IF \/ result_bytes_written = 0
                \/ idk(input_length, result_bytes_written, input_bytes_left)
             THEN /\ blz_pc' = "encode_panic"
                  /\ blz_error' = "not yet implemented"
                  /\ container_buffer' = <<>>
             ELSE IF stored < 0 /\ overflow_checks
             THEN /\ blz_pc' = "encode_panic"
                  /\ blz_error' = "attempt to subtract with overflow"
                  /\ container_buffer' = <<>>
             ELSE /\ blz_pc' = "encoded"
                  /\ blz_error' = ""
                  /\ container_buffer' =
                        padded
                          \o U24Bytes(result_bytes_written + header_length)
                          \o <<header_length>>
                          \o U32Bytes(stored)
    /\ UNCHANGED <<overflow_checks, original_input, input_position, flag_index,
                   mask, input_bytes_left, result_bytes_written, position_best,
                   decode_vars>>
    /\ UNCHANGED not_blz

\* blz_decode, line 58: the footer-length assertion
HeaderLengthAccepted(header_length) == header_length >= 8 \/ header_length <= 11

\* blz_decode, lines 37-82: the checks and the set-up before the loop.
\* outcome "ok" carries the decoder's initial state.
DecodeSetup(buf, checks) ==
    LET n == Len(buf)
        Stop(kind, why) ==
            [outcome |-> kind, error |-> why, result_size |-> 0,
             unencoded_length |-> 0, encoded_buffer |-> <<>>]
    IN
    IF n % 4 # 0
    THEN Stop("err", "Input buffer has an invalid length (must be multiple of 4)")
    ELSE IF n < 8
    THEN Stop("err", "Input buffer is too small to be a valid Bottom LZ file")
    ELSE
    LET increase_low == Low24At(buf, n - 4)
        increase_high == HighByteAt(buf, n - 4)
        header_length == At(buf, n - 5)
        encoded_length_0 == Low24At(buf, n - 8)
        unencoded == n - encoded_length_0
        encoded_length == encoded_length_0 - header_length
        sum_low == increase_low + n
        sum_high == increase_high + (sum_low \div 16777216)
    IN
    IF increase_low = 0 /\ increase_high = 0
    THEN Stop("panic", "Not coded file!")
    ELSE IF ~HeaderLengthAccepted(header_length)
    THEN Stop("panic", "Invalid header length")
    ELSE IF ~(n > header_length)
    THEN Stop("panic", "Invalid header length")
    ELSE IF unencoded < 0 /\ checks
    THEN Stop("panic", "attempt to subtract with overflow")
    ELSE IF encoded_length < 0 /\ checks
    THEN Stop("panic", "attempt to subtract with overflow")
    ELSE IF sum_high >= 256 /\ checks
    THEN Stop("panic", "attempt to add with overflow")
    ELSE IF sum_high % 256 # 0
    THEN Stop("panic", "Resulting file too large")
    ELSE IF unencoded < 0 \/ unencoded > n
    THEN Stop("panic", "range end index out of range for slice")
    ELSE IF encoded_length < 0 \/ unencoded + encoded_length > n
    THEN Stop("panic", "range end index out of range for slice")
    ELSE [outcome |-> "ok", error |-> "",
          result_size |-> sum_low % 16777216,
          unencoded_length |-> unencoded,
          encoded_buffer |->
              Reverse(Slice(buf, unencoded, unencoded + encoded_length))]

\* blz_decode is called on the container blz_encode returned
DecodeBegin ==
    /\ blz_pc = "encoded"
    /\ LET s == DecodeSetup(container_buffer, overflow_checks) IN
          /\ blz_pc' = CASE s.outcome = "ok" -> "decode_loop"
                         [] s.outcome = "err" -> "decode_err"
                         [] OTHER -> "decode_panic"
          /\ blz_error' = s.error
          /\ result_size' = s.result_size
          /\ unencoded_length' = s.unencoded_length
          /\ encoded_buffer' = s.encoded_buffer
          /\ d_result' = IF s.outcome = "ok"
                         THEN Slice(container_buffer, 0, s.unencoded_length)
                         ELSE <<>>
          /\ encoded_position' = 0
          /\ d_mask' = 0
          /\ d_flags' = 0
    /\ UNCHANGED <<overflow_checks, encode_vars, container_buffer>>
    /\ UNCHANGED not_blz

\* The copy of a back-reference taken from the output as it was before the
\* copy began (bytes past its end read as 0)
CopyFromSnapshot(result, pos, len) ==
    result \o [i \in 1..len |->
                  IF i <= pos THEN result[Len(result) - pos + i] ELSE 0]

RECURSIVE CopyBack(_, _, _)
\* blz_decode, lines 123-125: the byte-by-byte copy of a back-reference
\* (the output so far is taken as a value once in every round)
CopyBack(result, pos, len) ==
    IF len = 0 THEN result
    ELSE CHOOSE copied \in
             {CopyBack(Append(r, At(r, Len(r) - pos)), pos, len - 1) :
                  r \in {result}} : TRUE

\* An iteration that neither stops nor reads nor appends anything
DecodeIterationIdle(enc, position, m0, flags0, result, size) ==
    [outcome |-> "continue", error |-> "", position |-> position,
     mask |-> m0, flags |-> flags0, result |-> result]

\* blz_decode, lines 91-126: one iteration of the loop
DecodeIteration(enc, position, m0, flags0, result, size) ==
    LET shifted == m0 \div 2
        need_flags == shifted = 0
        Out(kind, why, p, m, f, r) ==
            [outcome |-> kind, error |-> why, position |-> p, mask |-> m,
             flags |-> f, result |-> r]
    IN
    IF need_flags /\ position = Len(enc)
    THEN Out("break", "", position, shifted, flags0, result)
    ELSE
    LET flags == IF need_flags THEN At(enc, position) ELSE flags0
        m == IF need_flags THEN BLZ_MASK ELSE shifted
        p == IF need_flags THEN position + 1 ELSE position
    IN
    IF ~BitSet(flags, m)
    THEN IF p = Len(enc)
         THEN Out("break", "", p, m, flags, result)
         ELSE Out("continue", "", p + 1, m, flags, Append(result, At(enc, p)))
    ELSE IF p + 1 = Len(enc)
         THEN Out("break", "", p, m, flags, result)
         ELSE IF p >= Len(enc)
         THEN Out("err", "failed to fill whole buffer", p, m, flags, result)
         ELSE
         LET raw == At(enc, p) * 256 + At(enc, p + 1)
             len == (raw \div 4096) + BLZ_THRESHOLD + 1
             pos == (raw % 4096) + 3
         IN
         IF Len(result) + len > size
         THEN Out("panic", "Wrong decoded length", p + 2, m, flags, result)
         ELSE IF pos > Len(result)
         THEN Out("panic", "index out of bounds", p + 2, m, flags, result)
         ELSE Out("continue", "", p + 2, m, flags, CopyBack(result, pos, len))

DecodeStep ==
    /\ blz_pc = "decode_loop"
    /\ Len(d_result) < result_size
    /\ LET it == DecodeIteration(encoded_buffer, encoded_position, d_mask,
                                 d_flags, d_result, result_size) IN
          /\ blz_pc' = CASE it.outcome = "continue" -> "decode_loop"
                         [] it.outcome = "break" -> "decode_break"
                         [] it.outcome = "err" -> "decode_err"
                         [] OTHER -> "decode_panic"
          /\ blz_error' = it.error
          /\ encoded_position' = it.position
          /\ d_mask' = it.mask
          /\ d_flags' = it.flags
          /\ d_result' = it.result
    /\ UNCHANGED <<overflow_checks, encode_vars, container_buffer,
                   encoded_buffer, result_size, unencoded_length>>
    /\ UNCHANGED not_blz

\* blz_decode, lines 129-133: the length assertion and the final reversal
DecodeFinish ==
    /\ \/ blz_pc = "decode_break"
       \/ blz_pc = "decode_loop" /\ Len(d_result) >= result_size
    /\ IF Len(d_result) = result_size
       THEN /\ blz_pc' = "decoded"
            /\ blz_error' = ""
            /\ d_result' = Slice(d_result, 0, unencoded_length)
                             \o Reverse(Slice(d_result, unencoded_length,
                                              Len(d_result)))
       ELSE /\ blz_pc' = "decode_panic"
            /\ blz_error' = "Decompressed byte length doesn't match expected length"
            /\ d_result' = d_result
    /\ UNCHANGED <<overflow_checks, encode_vars, container_buffer,
                   encoded_buffer, encoded_position, d_mask, d_flags,
                   result_size, unencoded_length>>
    /\ UNCHANGED not_blz

NextBlz ==
    \/ EncodeBegin
    \/ EncodeStep
    \/ EncodeFinish
    \/ DecodeBegin
    \/ DecodeStep
    \/ DecodeFinish

SpecBlz == InitBlz /\ [][NextBlz]_vars

----------------------------------------------------------------------------
(* Claims about the BLZ codec                                              *)

BlzFailed == blz_pc \in {"encode_panic", "decode_err", "decode_panic"}

\* C3: for every byte buffer B, blz_decode(blz_encode(B)) returns a buffer
\* equal to B: no run of the codec ends in a panic or an Err, and a returned
\* decoded buffer equals the buffer that was given to blz_encode.
C3_RoundTripReproducesInput ==
    /\ ~BlzFailed
    /\ blz_pc = "decoded" => d_result = original_input

\* C4: whenever blz_encode returns, the caller's buffer holds the bytes it
\* held before the call, in the same order; while the compression loop runs
\* the buffer is the reversed input.
C4_InputBufferRestored ==
    /\ blz_pc = "encode_loop" => input_buffer = Reverse(original_input)
    /\ blz_pc = "encoded" => input_buffer = original_input

\* C4 witness: blz_encode has returned a container for a buffer that is not a
\* palindrome, so the reversal and its undoing both changed the buffer.
C4_Witness ==
    /\ blz_pc = "encoded"
    /\ container_buffer # <<>>
    /\ original_input # Reverse(original_input)
    /\ input_buffer = original_input

----------------------------------------------------------------------------
(* src/bcres/bcres.rs: WriteContext                                        *)

\* Option::None of str::find
NotFound == -1

RECURSIVE FindFrom(_, _, _)
\* str::find: the first byte index at which needle occurs, scanning upward
FindFrom(haystack, needle, i) ==
    IF i + Len(needle) > Len(haystack) THEN NotFound
    ELSE IF Slice(haystack, i, i + Len(needle)) = needle THEN i
    ELSE FindFrom(haystack, needle, i + 1)

find(haystack, needle) == FindFrom(haystack, needle, 0)

\* mutant of add_string: de-duplication is forgotten
add_string_always_appends(section, string) == section \o string \o <<0>>

\* WriteContext::add_string, lines 47-56
add_string(section, string) ==
    IF find(section, string) # NotFound
    THEN section
    ELSE section \o string \o <<0>>

\* Bounds of the strings given to add_string and of the number of calls
MaxNameLen == 2
MaxCalls == 3

\* The characters names are made of ("a", "b")
NameChars == {97, 98}

PoolStrings == SeqsOf(NameChars, 0, MaxNameLen)

InitPool ==
    /\ overflow_checks = FALSE
    /\ blz_pc = "idle"
    /\ blz_error = ""
    /\ original_input = <<>>
    /\ input_buffer = <<>>
    /\ BlzIdle
    /\ string_section = <<>>
    /\ pool_prev = <<>>
    /\ pool_last = <<>>
    /\ pool_calls = 0
    /\ CgfxIdle
    /\ RegIdle
    /\ CodecIdle

\* A caller of WriteContext::add_string
AddStringCall(s) ==
    /\ pool_calls < MaxCalls
    /\ pool_prev' = string_section
    /\ pool_last' = s
    /\ pool_calls' = pool_calls + 1
    /\ string_section' = add_string(string_section, s)
    /\ UNCHANGED not_pool

NextPool == \E s \in PoolStrings : AddStringCall(s)

SpecPool == InitPool /\ [][NextPool]_vars

\* s occurs in pool as a run of consecutive bytes
OccursIn(s, pool) ==
    \E i \in 0..(Len(pool) - Len(s)) :
        \A k \in 1..Len(s) : pool[i + k] = s[k]

\* C10: after any sequence of add_string calls, add_string(s) leaves the pool
\* unchanged when s already occurs in it as a substring, and otherwise grows
\* it by exactly s followed by one NUL byte.
C10_AddStringDedupBySubstring ==
    pool_calls > 0 =>
        IF OccursIn(pool_last, pool_prev)
        THEN string_section = pool_prev
        ELSE string_section = pool_prev \o pool_last \o <<0>>

\* C10 witness: a string that was not added itself but lies inside an earlier
\* entry is added and the pool stays as it was.
C10_Witness ==
    /\ pool_calls = 2
    /\ pool_prev = <<97, 98, 0>>
    /\ pool_last = <<98>>
    /\ string_section = pool_prev

----------------------------------------------------------------------------
(* u32 values, pointers and options                                        *)

\* A u32 as its top byte and its low 24 bits: hi * 2^24 + lo
U32(hi, lo) == [hi |-> hi, lo |-> lo]

\* The u32 with the value n, for 0 <= n < 2^31
U32Of(n) == [hi |-> n \div 16777216, lo |-> n % 16777216]

\* u32::MAX
U32Max == [hi |-> 255, lo |-> 16777215]

\* ReadBytesExt::read_u32::<LittleEndian> at offset i
ReadU32(buf, i) == [hi |-> HighByteAt(buf, i), lo |-> Low24At(buf, i)]

\* ReadBytesExt::read_u16::<LittleEndian> at offset i
ReadU16(buf, i) == At(buf, i) + 256 * At(buf, i + 1)

\* WriteBytesExt::write_u32::<LittleEndian>
WriteU32(x) == U24Bytes(x.lo) \o <<x.hi>>

\* WriteBytesExt::write_u16::<LittleEndian>
WriteU16(n) == <<n % 256, (n \div 256) % 256>>

\* u32 + u32: the wrapped sum and whether it overflowed
AddU32(a, b) ==
    LET lo == a.lo + b.lo
        hi == a.hi + b.hi + (lo \div 16777216)
    IN [val |-> [hi |-> hi % 256, lo |-> lo % 16777216],
        overflow |-> hi >= 256]

\* Option<T>
None == [some |-> FALSE]
Some(v) == [some |-> TRUE, v |-> v]

\* Pointer::read, lines 85-93: 0 is None, anything else Some(Pointer(value))
PointerRead(buf, i) ==
    LET value == ReadU32(buf, i) IN
    IF value # U32Of(0) THEN Some(value) ELSE None

\* impl Add<Self> for Pointer, lines 107-113: u32 addition
\* (panics on overflow with overflow checks, wraps without)
PointerAdd(a, b, checks) ==
    LET s == AddU32(a, b) IN
    IF s.overflow /\ checks
    THEN [ok |-> FALSE, val |-> s.val]
    ELSE [ok |-> TRUE, val |-> s.val]

\* impl Add<i32> for Pointer (from_type_unwrap!), lines 41-48: both operands
\* go through i32 and the sum back to u32, each conversion unwrapped
PointerAddI32(a, n) ==
    IF a.hi >= 128 THEN [ok |-> FALSE, val |-> a]
    ELSE LET s == AddU32(a, U32Of(n)) IN
         IF s.val.hi >= 128 THEN [ok |-> FALSE, val |-> s.val]
         ELSE [ok |-> TRUE, val |-> s.val]

\* Whether n bytes can be read at the u32 offset off
InBuffer(buf, off, n) == off.hi = 0 /\ off.lo + n <= Len(buf)

RECURSIVE NulAt(_, _)
\* read_string: the offset of the first NUL byte at or after i (Len(buf) when
\* the buffer ends first)
NulAt(buf, i) ==
    IF i >= Len(buf) THEN Len(buf)
    ELSE IF At(buf, i) = 0 THEN i ELSE NulAt(buf, i + 1)

\* String::from_utf8 on the bytes the model's buffers hold: ASCII is valid, a
\* byte 0xFF never is (the model's buffers hold no other byte >= 0x80 where a
\* string is read)
Utf8Valid(s) == \A k \in 1..Len(s) : s[k] < 128

\* read_string, bcres.rs lines 11-25, at the u32 offset off: read_u8 fails
\* with an Err when the buffer ends before a NUL byte
read_string(buf, off) ==
    IF ~InBuffer(buf, off, 1) THEN [outcome |-> "err", string |-> <<>>]
    ELSE LET end == NulAt(buf, off.lo)
             s == Slice(buf, off.lo, end)
         IN IF end >= Len(buf) THEN [outcome |-> "err", string |-> <<>>]
            ELSE IF ~Utf8Valid(s) THEN [outcome |-> "err", string |-> <<>>]
            ELSE [outcome |-> "ok", string |-> s]

----------------------------------------------------------------------------
(* src/bcres/texture.rs and src/bcres/util.rs: reading a texture           *)

\* The discriminants of CgfxTexture, texture.rs lines 141 and 150
ImageDiscriminant == [hi |-> 32, lo |-> 17]
CubeDiscriminant == [hi |-> 32, lo |-> 9]

\* The number of variants of PicaTextureFormat, texture.rs lines 14-29
PicaFormatCount == 14

\* One entry of the log of side reads: the pointer field at offset `at` held
\* `stored`, and the read went to offset `target`
ReadLog(kind, at, stored, target) ==
    [kind |-> kind, at |-> at, stored |-> stored, target |-> target]

\* A reader's result
Result(outcome, error, value, log) ==
    [outcome |-> outcome, error |-> error, value |-> value, reads |-> log]

\* The n u32 fields that start at offset p
ReadU32s(buf, p, n) == [k \in 1..n |-> ReadU32(buf, p + 4 * (k - 1))]

\* brw_read_4_byte_string, util.rs lines 22-31: Read::read fills what the
\* buffer still holds and leaves the rest of the four bytes 0
Read4Bytes(buf, p) ==
    [k \in 1..4 |-> IF p + k <= Len(buf) THEN buf[p + k] ELSE 0]

\* texture.rs lines 120-127: the ImageData record f read at offset at, then
\* its bytes where its buffer pointer says.  (The private buffer_pointer is
\* not kept: the writer never uses it.)
ImageDataRead(buf, at, f, log1) ==
    LET \* brw_relative_pointer, util.rs lines 86-96
        buffer_pointer == AddU32(U32Of(at + 12), f[4])
        log2 == log1 \o <<ReadLog("image_bytes", at + 12, f[4], buffer_pointer.val)>>
    IN
    IF f[4] # U32Of(0) /\ buffer_pointer.overflow
    THEN Result("panic", "unwrap on an Err value", None, log1)
    ELSE IF at + 32 > Len(buf)
    THEN Result("err", "failed to fill whole buffer", None, log1)
    ELSE IF f[7] # U32Of(0)
    THEN Result("err", "ImageData has location_ptr", None, log1)
    ELSE IF f[4] = U32Of(0)
    THEN Result("panic", "unwrap on a None value", None, log1)
    ELSE IF f[3].hi # 0 \/ ~InBuffer(buf, buffer_pointer.val, f[3].lo)
    THEN Result("err", "failed to fill whole buffer", None, log2)
    ELSE Result("ok", "",
                Some([height |-> f[1], width |-> f[2],
                      image_bytes |-> Slice(buf, buffer_pointer.val.lo,
                                            buffer_pointer.val.lo + f[3].lo),
                      buffer_length |-> f[3], dynamic_alloc |-> f[5],
                      bits_per_pixel |-> f[6], location_ptr |-> f[7],
                      memory_area |-> f[8]]),
                log2)

\* texture.rs lines 116-120: the pointer read at offset p is followed from
\* the field it was read from (seek(Current(pointer - 4)) at p + 4)
ImageDataAt(buf, p, image_data_pointer, d) ==
    IF d.overflow \/ ~InBuffer(buf, d.val, 16)
    THEN Result("err", "failed to fill whole buffer", None,
                <<ReadLog("image_data", p, image_data_pointer, d.val)>>)
    ELSE ImageDataRead(buf, d.val.lo,
                       [k \in 1..8 |-> IF d.val.lo + 4 * k <= Len(buf)
                                       THEN ReadU32(buf, d.val.lo + 4 * (k - 1))
                                       ELSE U32Of(0)],
                       <<ReadLog("image_data", p, image_data_pointer, d.val)>>)

\* image_data, texture.rs lines 112-132, with the reader at offset p
image_data(buf, p) ==
    IF p + 4 > Len(buf) THEN Result("err", "failed to fill whole buffer", None, <<>>)
    ELSE IF ~PointerRead(buf, p).some THEN Result("ok", "", None, <<>>)
    ELSE ImageDataAt(buf, p, ReadU32(buf, p), AddU32(U32Of(p), ReadU32(buf, p)))

\* texture.rs line 150: CgfxTexture::Image(common, image_data(reader)?)
ImageTextureRead(common, image, log0) ==
    IF image.outcome # "ok"
    THEN Result(image.outcome, image.error, None, log0 \o image.reads)
    ELSE Result("ok", "",
                Some([kind |-> "Image", common |-> common, image |-> image.value]),
                log0 \o image.reads)

\* CgfxTextureCommon::read after the name, texture.rs lines 89-104 and
\* util.rs lines 157 and 168-172, then the match of texture.rs lines 140-153;
\* the texture starts at offset p
TextureAfterName(buf, p, texture_type_discriminant, magic, name, log0) ==
    IF p + 24 > Len(buf)
    THEN Result("err", "failed to fill whole buffer", None, log0)
    ELSE IF ReadU32(buf, p + 20) # U32Of(0)
    THEN Result("err", "CgfxTexture has metadata", None, log0)
    ELSE IF p + 56 > Len(buf)
    THEN Result("err", "failed to fill whole buffer", None, log0)
    ELSE IF ~(ReadU32(buf, p + 52).hi = 0 /\ ReadU32(buf, p + 52).lo < PicaFormatCount)
    THEN Result("err", "no matching variant of PicaTextureFormat", None, log0)
    ELSE IF texture_type_discriminant = ImageDiscriminant
    THEN ImageTextureRead([magic |-> magic, revision |-> ReadU32(buf, p + 8),
                           name |-> name,
                           metadata_count |-> ReadU32(buf, p + 16),
                           metadata_pointer |-> None,
                           props |-> ReadU32s(buf, p + 24, 7),
                           texture_format |-> ReadU32(buf, p + 52)],
                          image_data(buf, p + 56), log0)
    ELSE IF texture_type_discriminant = CubeDiscriminant
    THEN Result("unmodelled", "cube textures are outside the model", None, log0)
    ELSE Result("err", "Invalid Texture discriminant", None, log0)

\* brw_read_string, util.rs lines 58-78, for the name pointer at offset
\* p + 12: the string is read at the pointer field's offset plus the pointer
\* (read_string of util.rs lines 42-56 unwraps the byte reads)
TextureName(buf, p, texture_type_discriminant, magic, name_pointer, name_target) ==
    IF name_target.overflow \/ ~InBuffer(buf, name_target.val, 1)
    THEN Result("panic", "unwrap on an Err value", None,
                <<ReadLog("texture_name", p + 12, name_pointer, name_target.val)>>)
    ELSE IF NulAt(buf, name_target.val.lo) >= Len(buf)
    THEN Result("panic", "unwrap on an Err value", None,
                <<ReadLog("texture_name", p + 12, name_pointer, name_target.val)>>)
    ELSE IF ~Utf8Valid(Slice(buf, name_target.val.lo, NulAt(buf, name_target.val.lo)))
    THEN Result("err", "invalid utf-8 sequence", None,
                <<ReadLog("texture_name", p + 12, name_pointer, name_target.val)>>)
    ELSE TextureAfterName(buf, p, texture_type_discriminant, magic,
             Some(Slice(buf, name_target.val.lo, NulAt(buf, name_target.val.lo))),
             <<ReadLog("texture_name", p + 12, name_pointer, name_target.val)>>)

\* CgfxTexture::from_reader, texture.rs lines 135-156, with CgfxTextureCommon
\* and CgfxObjectHeader (util.rs lines 154-173), at the u32 offset off
TextureFromReader(buf, off) ==
    IF ~InBuffer(buf, off, 4)
    THEN Result("err", "failed to fill whole buffer", None, <<>>)
    ELSE IF ~Utf8Valid(Read4Bytes(buf, off.lo + 4))
    THEN Result("panic", "unwrap on an Err value", None, <<>>)
    ELSE IF off.lo + 16 > Len(buf)
    THEN Result("err", "failed to fill whole buffer", None, <<>>)
    ELSE IF ReadU32(buf, off.lo + 12) = U32Of(0)
    THEN TextureAfterName(buf, off.lo, ReadU32(buf, off.lo),
                          Read4Bytes(buf, off.lo + 4), None, <<>>)
    ELSE TextureName(buf, off.lo, ReadU32(buf, off.lo),
                     Read4Bytes(buf, off.lo + 4), ReadU32(buf, off.lo + 12),
                     AddU32(U32Of(off.lo + 12), ReadU32(buf, off.lo + 12)))

----------------------------------------------------------------------------
(* src/bcres/bcres.rs: CgfxNode::from_reader and CgfxDict::from_reader     *)

\* Sizes of the records, in bytes: the twelve header bytes of a dictionary
\* (lines 174-176) and the sixteen bytes of a node (lines 116-121)
DictHeaderSize == 12
NodeSize == 16

\* One entry of the log of side reads made for node `index` of the dictionary
\* that starts at `dict_start`
NodeReadLog(kind, dict_start, index, stored, target) ==
    [kind |-> kind, dict_start |-> dict_start, index |-> index,
     stored |-> stored, target |-> target]

\* CgfxNode::from_reader, lines 113-135, on the 16 bytes at offset off;
\* start_file_offset is what the caller passes for the node's own offset
CgfxNodeFromReader(buf, off, start_file_offset) ==
    [reference_bit |-> ReadU32(buf, off),
     left_node_index |-> ReadU16(buf, off + 4),
     right_node_index |-> ReadU16(buf, off + 6),
     name |-> None,
     value |-> None,
     file_offset |-> U32Of(start_file_offset),
     name_pointer |-> PointerRead(buf, off + 8),
     value_pointer |-> PointerRead(buf, off + 12)]

\* The reader's position when i nodes of the dictionary at start have been
\* read (lines 174-179)
NodePosition(start, i) == start + DictHeaderSize + NodeSize * i

\* mutant of NodeFileOffset: the reader's position is taken once the node's
\* record has been read
NodeFileOffsetAfterRecord(start, i) == NodePosition(start, i + 1)

\* Pointer::try_from(&reader) of line 179, evaluated before node i (counted
\* from 0) is read
NodeFileOffset(start, i) == NodePosition(start, i)

\* T::read_dict_value, lines 88-90 for () and texture.rs lines 207-209
read_dict_value(buf, off, typed) ==
    IF typed THEN TextureFromReader(buf, off)
    ELSE Result("ok", "", Some("unit"), <<>>)

\* Lines 188-191: the name is read at string_offset
NodeNameRead(start, i, node, string_offset, name_read) ==
    IF name_read.outcome # "ok"
    THEN Result("err", "read_string failed", node,
                <<NodeReadLog("node_name", start, i, node.name_pointer.v,
                              string_offset)>>)
    ELSE Result("ok", "", [node EXCEPT !.name = Some(name_read.string)],
                <<NodeReadLog("node_name", start, i, node.name_pointer.v,
                              string_offset)>>)

\* Lines 185-192: node.file_offset + 8 + name_pointer
NodeName(buf, start, i, node, name_base, string_offset) ==
    IF ~node.name_pointer.some THEN Result("ok", "", node, <<>>)
    ELSE IF ~name_base.ok THEN Result("panic", "unwrap on an Err value", node, <<>>)
    ELSE IF ~string_offset.ok
    THEN Result("panic", "attempt to add with overflow", node, <<>>)
    ELSE NodeNameRead(start, i, node, string_offset.val,
                      read_string(buf, string_offset.val))

\* Lines 197-200: the value is read at value_offset
NodeValueRead(start, i, node, name_log, value_offset, value_read) ==
    IF value_read.outcome # "ok"
    THEN Result(value_read.outcome, value_read.error, node,
                name_log \o <<NodeReadLog("node_value", start, i,
                                          node.value_pointer.v, value_offset)>>
                         \o value_read.reads)
    ELSE Result("ok", "", [node EXCEPT !.value = value_read.value],
                name_log \o <<NodeReadLog("node_value", start, i,
                                          node.value_pointer.v, value_offset)>>
                         \o value_read.reads)

\* Lines 194-201: node.file_offset + 12 + value_pointer
NodeValue(buf, start, i, named, typed, value_base, value_offset) ==
    IF named.outcome # "ok" THEN named
    ELSE IF ~named.value.value_pointer.some THEN named
    ELSE IF ~value_base.ok
    THEN Result("panic", "unwrap on an Err value", named.value, named.reads)
    ELSE IF ~value_offset.ok
    THEN Result("panic", "attempt to add with overflow", named.value, named.reads)
    ELSE NodeValueRead(start, i, named.value, named.reads, value_offset.val,
                       read_dict_value(buf, value_offset.val, typed))

\* Lines 185-201 for node i: its name and its value are read where its
\* pointers say
ResolveNode(buf, start, i, node, typed, checks) ==
    NodeValue(buf, start, i,
              NodeName(buf, start, i, node, PointerAddI32(node.file_offset, 8),
                       PointerAdd(PointerAddI32(node.file_offset, 8).val,
                                  node.name_pointer.v, checks)),
              typed, PointerAddI32(node.file_offset, 12),
              PointerAdd(PointerAddI32(node.file_offset, 12).val,
                         node.value_pointer.v, checks))

RECURSIVE ResolveNodes(_, _, _, _, _, _, _, _)
\* The loop of lines 184-202 once node i is resolved as r; done holds the
\* nodes resolved before it and log what was read for them
ResolveNext(buf, start, nodes, i, typed, checks, done, log, r) ==
    IF r.outcome # "ok"
    THEN Result(r.outcome, r.error, done, log \o r.reads)
    ELSE ResolveNodes(buf, start, nodes, i + 1, typed, checks,
                      Append(done, r.value), log \o r.reads)

\* The loop of lines 184-202 from node i on
ResolveNodes(buf, start, nodes, i, typed, checks, done, log) ==
    IF i >= Len(nodes) THEN Result("ok", "", done, log)
    ELSE ResolveNext(buf, start, nodes, i, typed, checks, done, log,
                     ResolveNode(buf, start, i, nodes[i + 1], typed, checks))

\* Lines 204-209: the dictionary returned once its nodes are resolved
DictResolved(buf, start, resolved) ==
    IF resolved.outcome # "ok"
    THEN Result(resolved.outcome, resolved.error, None, resolved.reads)
    ELSE Result("ok", "",
                Some([magic_number |-> Read4Bytes(buf, start),
                      tree_length |-> ReadU32(buf, start + 4),
                      values_count |-> ReadU32(buf, start + 8),
                      nodes |-> resolved.value]),
                resolved.reads)

\* Lines 178-202: values_count + 1 node records are read one after the
\* other, then resolved
DictNodes(buf, start, node_count, typed, checks) ==
    IF node_count.overflow /\ checks
    THEN Result("panic", "attempt to add with overflow", None, <<>>)
    ELSE IF node_count.val.hi # 0
            \/ NodePosition(start, node_count.val.lo) > Len(buf)
    THEN Result("err", "failed to fill whole buffer", None, <<>>)
    ELSE DictResolved(buf, start,
             ResolveNodes(buf, start,
                 [i \in 1..node_count.val.lo |->
                     CgfxNodeFromReader(buf, NodePosition(start, i - 1),
                                        NodeFileOffset(start, i - 1))],
                 0, typed, checks, <<>>, <<>>))

\* CgfxDict::from_buffer and CgfxDict::from_reader, lines 166-210, for the
\* dictionary at the u32 offset start_position; typed says whether the values
\* are textures (the Textures slot) or () (every other slot)
CgfxDictFromReader(buf, start_position, typed, checks) ==
    IF ~Utf8Valid(IF start_position.hi = 0
                  THEN Read4Bytes(buf, start_position.lo)
                  ELSE <<0, 0, 0, 0>>)
    THEN Result("err", "invalid utf-8 sequence", None, <<>>)
    ELSE IF ~InBuffer(buf, start_position, DictHeaderSize)
    THEN Result("err", "failed to fill whole buffer", None, <<>>)
    ELSE DictNodes(buf, start_position.lo,
                   AddU32(ReadU32(buf, start_position.lo + 8), U32Of(1)),
                   typed, checks)

----------------------------------------------------------------------------
(* src/bcres/bcres.rs: CgfxHeader and CgfxContainer::new                   *)

\* b"CGFX", line 241
CgfxMagic == <<67, 71, 70, 88>>

\* 0x41544144, "DATA" as a little-endian u32, line 249
ContentMagic == [hi |-> 65, lo |-> 5522497]

\* The bytes CgfxHeader takes, magic included (lines 241-254)
HeaderSize == 28

\* The number of dictionary slots, line 283
SlotCount == 16

\* The index of the Textures slot, line 298
TexturesSlot == 1

\* CgfxHeader::read, lines 240-254
CgfxHeaderRead(buf) ==
    IF Len(buf) < 4 THEN Result("err", "failed to fill whole buffer", None, <<>>)
    ELSE IF Slice(buf, 0, 4) # CgfxMagic
    THEN Result("err", "bad magic", None, <<>>)
    ELSE IF Len(buf) < HeaderSize
    THEN Result("err", "failed to fill whole buffer", None, <<>>)
    ELSE IF ReadU32(buf, 20) # ContentMagic
    THEN Result("err", "Invalid magic number for data", None, <<>>)
    ELSE Result("ok", "",
                [byte_order_mark |-> ReadU16(buf, 4),
                 header_length |-> ReadU16(buf, 6),
                 revision |-> ReadU32(buf, 8),
                 file_length |-> ReadU32(buf, 12),
                 sections_count |-> ReadU32(buf, 16),
                 content_magic_number |-> ReadU32(buf, 20),
                 content_length |-> ReadU32(buf, 24)],
                <<>>)

\* CgfxHeader::write
CgfxHeaderWrite(header) ==
    CgfxMagic \o WriteU16(header.byte_order_mark) \o WriteU16(header.header_length)
    \o WriteU32(header.revision) \o WriteU32(header.file_length)
    \o WriteU32(header.sections_count) \o WriteU32(header.content_magic_number)
    \o WriteU32(header.content_length)

\* Line 290 without its + 4: the pointer added to the slot's position only
DictOffsetFromSlotStart(count, sum, absolute) ==
    IF ~sum.ok THEN Result("panic", "attempt to add with overflow", None, <<>>)
    ELSE Result("ok", "", [count |-> count, offset |-> Some(sum.val)], <<>>)

\* Line 290: pointer + position + 4
DictOffset(count, sum, absolute) ==
    IF ~sum.ok THEN Result("panic", "attempt to add with overflow", None, <<>>)
    ELSE IF ~absolute.ok THEN Result("panic", "unwrap on an Err value", None, <<>>)
    ELSE Result("ok", "", [count |-> count, offset |-> Some(absolute.val)], <<>>)

\* Lines 286-291 for slot i: the count and the pointer made absolute
DictReference(buf, i, checks) ==
    IF HeaderSize + 8 * i + 8 > Len(buf)
    THEN Result("err", "failed to fill whole buffer", None, <<>>)
    ELSE IF ~PointerRead(buf, HeaderSize + 8 * i + 4).some
    THEN Result("ok", "",
                [count |-> ReadU32(buf, HeaderSize + 8 * i), offset |-> None], <<>>)
    ELSE DictOffset(ReadU32(buf, HeaderSize + 8 * i),
                    PointerAdd(ReadU32(buf, HeaderSize + 8 * i + 4),
                               U32Of(HeaderSize + 8 * i), checks),
                    PointerAddI32(PointerAdd(ReadU32(buf, HeaderSize + 8 * i + 4),
                                             U32Of(HeaderSize + 8 * i), checks).val,
                                  4))

RECURSIVE DictReferences(_, _, _, _)
\* The loop of lines 285-292 once slot i is read as r
DictReferencesNext(buf, i, checks, done, r) ==
    IF r.outcome # "ok" THEN r
    ELSE DictReferences(buf, i + 1, checks, Append(done, r.value))

\* The loop of lines 285-292 from slot i on
DictReferences(buf, i, checks, done) ==
    IF i >= SlotCount THEN Result("ok", "", done, <<>>)
    ELSE DictReferencesNext(buf, i, checks, done, DictReference(buf, i, checks))

\* Lines 307-311: the node count of the dictionary read is compared with
\* the slot's count
UnitDictChecked(reference, read, expected, checks) ==
    IF read.outcome # "ok" THEN read
    ELSE IF expected.overflow /\ checks
    THEN Result("panic", "attempt to add with overflow", None, read.reads)
    ELSE IF U32Of(Len(read.value.v.nodes)) # expected.val
    THEN Result("panic", "assertion left == right failed", None, read.reads)
    ELSE read

\* Lines 302-311 for one slot other than Textures: the dictionary is read
\* with () values
UnitDict(buf, reference, checks) ==
    IF ~reference.offset.some
    THEN IF reference.count = U32Of(0)
         THEN Result("ok", "", None, <<>>)
         ELSE Result("panic", "assertion left == right failed", None, <<>>)
    ELSE UnitDictChecked(reference,
                         CgfxDictFromReader(buf, reference.offset.v, FALSE, checks),
                         AddU32(reference.count, U32Of(1)), checks)

RECURSIVE UnitDicts(_, _, _, _, _, _)
\* The loop of lines 296-314 once slot i is read as r
UnitDictsNext(buf, references, i, checks, done, log, r) ==
    IF r.outcome # "ok"
    THEN Result(r.outcome, r.error, done, log \o r.reads)
    ELSE UnitDicts(buf, references, i + 1, checks, Append(done, r.value),
                   log \o r.reads)

\* The loop of lines 296-314 from slot i on; done holds unit_dicts so far
\* and log the reads made
UnitDicts(buf, references, i, checks, done, log) ==
    IF i >= SlotCount THEN Result("ok", "", done, log)
    ELSE IF i = TexturesSlot
    THEN UnitDicts(buf, references, i + 1, checks, Append(done, None), log)
    ELSE UnitDictsNext(buf, references, i, checks, done, log,
                       UnitDict(buf, references[i + 1], checks))

\* The dictionaries from_reader returned for the slots, each with the offset
\* it was read at
DictsReturned(references, unit_dicts, textures) ==
    SelectSeq([i \in 1..Len(unit_dicts) |->
                  [slot |-> i - 1, at |-> references[i].offset, typed |-> FALSE,
                   dict |-> unit_dicts[i]]],
              LAMBDA d : d.dict.some)
    \o (IF textures.some
        THEN <<[slot |-> TexturesSlot, at |-> references[TexturesSlot + 1].offset,
                typed |-> TRUE, dict |-> textures]>>
        ELSE <<>>)

\* A failed CgfxContainer::new
NewFailed(r, dicts, log) ==
    Result(r.outcome, r.error, [container |-> None, dicts |-> dicts], log)

\* Lines 323-347: the Textures dictionary is read and the container returned
NewTextures(header, references, unit_dicts, textures) ==
    IF textures.outcome # "ok"
    THEN NewFailed(textures, DictsReturned(references, unit_dicts.value, None),
                   unit_dicts.reads \o textures.reads)
    ELSE Result("ok", "",
                [container |-> Some([header |-> header,
                                     textures |-> textures.value,
                                     unit_dicts |-> unit_dicts.value]),
                 dicts |-> DictsReturned(references, unit_dicts.value,
                                         textures.value)],
                unit_dicts.reads \o textures.reads)

\* Lines 318-326.  The Models slot (index 0) is read a second time as
\* CgfxDict<CgfxModel>; the model reader is outside this model, and a buffer
\* with a Models dictionary ends as "unmodelled".
NewTyped(buf, checks, header, references, unit_dicts) ==
    IF unit_dicts.outcome # "ok" THEN NewFailed(unit_dicts, <<>>, unit_dicts.reads)
    ELSE IF references[1].offset.some
    THEN Result("unmodelled", "the Models slot is outside the model",
                [container |-> None, dicts |-> <<>>], unit_dicts.reads)
    ELSE NewTextures(header, references, unit_dicts,
                     IF references[TexturesSlot + 1].offset.some
                     THEN CgfxDictFromReader(buf,
                              references[TexturesSlot + 1].offset.v, TRUE, checks)
                     ELSE Result("ok", "", None, <<>>))

\* Lines 294-314
NewUnitDicts(buf, checks, header, dict_references) ==
    IF dict_references.outcome # "ok" THEN NewFailed(dict_references, <<>>, <<>>)
    ELSE NewTyped(buf, checks, header, dict_references.value,
                  UnitDicts(buf, dict_references.value, 0, checks, <<>>, <<>>))

\* Lines 283-292
NewDictReferences(buf, checks, header) ==
    IF header.outcome # "ok" THEN NewFailed(header, <<>>, <<>>)
    ELSE NewUnitDicts(buf, checks, header.value,
                      DictReferences(buf, 0, checks, <<>>))

\* CgfxContainer::new, lines 279-348
CgfxContainerNew(buf, checks) ==
    NewDictReferences(buf, checks, CgfxHeaderRead(buf))

----------------------------------------------------------------------------
(* src/bcres/bcres.rs and src/bcres/texture.rs: the writer                 *)

\* mutant of write_at_pointer: the write cuts the buffer off behind the
\* four bytes
write_and_truncate(buf, at, bytes) ==
    [i \in 1..(at + 4) |->
        IF i > at THEN bytes[i - at]
        ELSE IF i <= Len(buf) THEN buf[i] ELSE 0]

\* mutant of write_at_pointer: the writer seeks and writes nothing
seek_without_write(buf, at, bytes) ==
    [i \in 1..Max2(Len(buf), at + 4) |-> IF i <= Len(buf) THEN buf[i] ELSE 0]

\* write_at_pointer, lib.rs lines 33-42: four bytes are written at offset at
\* and the position is put back (a Vec grows when the write ends past it)
write_at_pointer(buf, at, bytes) ==
    [i \in 1..Max2(Len(buf), at + 4) |->
        IF i > at /\ i <= at + 4 THEN bytes[i - at]
        ELSE IF i <= Len(buf) THEN buf[i] ELSE 0]

\* HashMap::insert: the entry of the same key is replaced
Insert(map, key, value) == {e \in map : e[1] # key} \cup {<<key, value>>}

\* The % of Rust on i32: the remainder has the sign of the dividend
Rem(a, b) == IF a >= 0 THEN a % b ELSE -((-a) % b)

\* alignment, line 403
alignment == 128

\* The padding that makes the position itself a multiple of the alignment
padding_to_alignment(buffer_size) ==
    Rem(Rem(-buffer_size, alignment) + alignment, alignment)

\* padding_size, line 405
padding_size(buffer_size) ==
    Rem(Rem(-buffer_size - 8, alignment) + alignment, alignment)

\* b"IMAG", line 424
ImagMagic == <<73, 77, 65, 71>>

\* CgfxNode::to_writer, lines 138-146: the record with both pointers 0
CgfxNodeBytes(node) ==
    WriteU32(node.reference_bit) \o WriteU16(node.left_node_index)
    \o WriteU16(node.right_node_index) \o WriteU32(U32Of(0)) \o WriteU32(U32Of(0))

RECURSIVE WriteU32s(_)
WriteU32s(values) ==
    IF values = <<>> THEN <<>>
    ELSE WriteU32(Head(values)) \o WriteU32s(Tail(values))

\* CgfxTextureCommon::write with CgfxObjectHeader, texture.rs lines 89-104
\* and util.rs lines 154-173: the name is written as 0
CgfxTextureCommonBytes(common) ==
    common.magic \o WriteU32(common.revision) \o WriteU32(U32Of(0))
    \o WriteU32(common.metadata_count)
    \o WriteU32(IF common.metadata_pointer.some THEN common.metadata_pointer.v
                ELSE U32Of(0))
    \o WriteU32s(common.props) \o WriteU32(common.texture_format)

\* Option<ImageData>::write, texture.rs lines 52-71: None writes nothing, the
\* buffer pointer is written as 0 and the image bytes are left out
ImageDataBytes(image) ==
    IF ~image.some THEN <<>>
    ELSE WriteU32s(<<image.v.height, image.v.width, image.v.buffer_length,
                     U32Of(0), image.v.dynamic_alloc, image.v.bits_per_pixel,
                     image.v.location_ptr, image.v.memory_area>>)

\* CgfxTexture::to_writer, texture.rs lines 158-203, with the writer at
\* offset at: the bytes written and what the write context receives
CgfxTextureToWriter(texture, at, section, references, images, image_refs) ==
    LET common == texture.common
        name_offset == at + 4 + 8
        named == common.name.some
        after_common == at + 4 + Len(CgfxTextureCommonBytes(common))
        current_offset == after_common + 4
        with_image == texture.kind = "Image" /\ texture.image.some
    IN
    [outcome |-> IF common.metadata_pointer.some THEN "panic"
                 ELSE IF Len(common.magic) # 4 THEN "err"
                 ELSE IF texture.kind = "Cube" THEN "panic"
                 ELSE "ok",
     error |-> IF common.metadata_pointer.some
               THEN "assertion failed: metadata_pointer == None"
               ELSE IF Len(common.magic) # 4
               THEN "Length of magic number must be 4 bytes"
               ELSE IF texture.kind = "Cube" THEN "not yet implemented"
               ELSE "",
     bytes |-> WriteU32(IF texture.kind = "Cube" THEN CubeDiscriminant
                        ELSE ImageDiscriminant)
               \o CgfxTextureCommonBytes(common)
               \o WriteU32(U32Of(4))
               \o (IF texture.kind = "Image" THEN ImageDataBytes(texture.image)
                   ELSE <<>>),
     string_section |-> IF named THEN add_string(section, common.name.v)
                        ELSE section,
     string_references |-> IF named
                           THEN Insert(references, name_offset, common.name.v)
                           ELSE references,
     image_references |-> IF with_image
                          THEN Insert(image_refs, current_offset + 12, Len(images))
                          ELSE image_refs,
     image_section |-> IF with_image THEN images \o texture.image.v.image_bytes
                       ELSE images]

----------------------------------------------------------------------------
(* The containers given to the writer                                      *)

\* Bound: the most nodes a dictionary given to the writer has
MaxNodes == 3

\* A CgfxNode as a caller builds it: the private offset and pointers have
\* their Default values
Node(reference_bit, left, right, name, value) ==
    [reference_bit |-> reference_bit, left_node_index |-> left,
     right_node_index |-> right, name |-> name, value |-> value,
     file_offset |-> U32Of(0), name_pointer |-> None, value_pointer |-> None]

\* "TXOB", "DICT"
TxobMagic == <<84, 88, 79, 66>>
DictMagic == <<68, 73, 67, 84>>

\* A CgfxTextureCommon of an 8x8 RGBA8 texture
Common(name) ==
    [magic |-> TxobMagic, revision |-> U32Of(5), name |-> name,
     metadata_count |-> U32Of(0), metadata_pointer |-> None,
     props |-> <<U32Of(8), U32Of(8), U32Of(26456), U32Of(5121), U32Of(1),
                 U32Of(0), U32Of(0)>>,
     texture_format |-> U32Of(0)]

\* An ImageData that owns the given bytes
Image(image_bytes) ==
    [height |-> U32Of(8), width |-> U32Of(8), image_bytes |-> image_bytes,
     buffer_length |-> U32Of(Len(image_bytes)), dynamic_alloc |-> U32Of(0),
     bits_per_pixel |-> U32Of(32), location_ptr |-> U32Of(0),
     memory_area |-> U32Of(0)]

\* CgfxTexture::Image(common, image)
ImageTexture(name, image) ==
    [kind |-> "Image", common |-> Common(name), image |-> image]

\* The nodes dictionaries are built from: the sentinel, a named node with a
\* named texture and its image, and a named node with an unnamed texture
\* that has no image
NodeChoices ==
    { Node(U32Max, 1, 0, None, None),
      Node(U32Of(1), 0, 1, Some(<<97, 98>>),
           Some(ImageTexture(Some(<<97, 98>>), Some(Image(<<1, 2, 3, 4>>))))),
      Node(U32Of(2), 1, 2, Some(<<97>>), Some(ImageTexture(None, None))) }

\* The values of values_count tried with a node array of n nodes: the right
\* one, one too many, and u32::MAX
ValuesCounts(n) ==
    (IF n > 0 THEN {U32Of(n - 1)} ELSE {}) \cup {U32Of(n), U32Max}

DictChoices ==
    { [magic_number |-> DictMagic, tree_length |-> U32Of(0),
       values_count |-> c, nodes |-> nodes] :
         <<c, nodes>> \in
            UNION { ValuesCounts(n) \X [1..n -> NodeChoices] : n \in 0..MaxNodes } }

\* The values of header.file_length tried
FileLengths == {U32Of(256), U32Of(384), U32Of(388), U32Of(520)}

ContainerChoices ==
    { [header |-> [byte_order_mark |-> 65279, header_length |-> 20,
                   revision |-> U32Of(5), file_length |-> l,
                   sections_count |-> U32Of(2),
                   content_magic_number |-> ContentMagic,
                   content_length |-> U32Of(0)],
       textures |-> t,
       unit_dicts |-> [i \in 1..SlotCount |-> None]] :
         l \in FileLengths,
         t \in {None} \cup {Some(d) : d \in DictChoices} }

InitCgfx ==
    /\ overflow_checks \in BOOLEAN
    /\ blz_pc = "idle"
    /\ blz_error = ""
    /\ original_input = <<>>
    /\ input_buffer = <<>>
    /\ BlzIdle
    /\ string_section = <<>>
    /\ pool_prev = <<>>
    /\ pool_last = <<>>
    /\ pool_calls = 0
    /\ RegIdle
    /\ \/ /\ w_direct = FALSE
          /\ container \in {Some(c) : c \in ContainerChoices}
          /\ dict = None
          /\ w_pc = "call_to_buffer"
       \/ /\ w_direct = TRUE
          /\ container = None
          /\ dict \in {Some(d) : d \in DictChoices}
          /\ w_pc = "call_to_writer"
    /\ original = container
    /\ round = 1
    /\ w_error = ""
    /\ out = <<>>
    /\ w_node = 0
    /\ string_references = {}
    /\ image_section = <<>>
    /\ image_references = {}
    /\ string_section_start = 0
    /\ image_section_offset = 0
    /\ file = <<>>
    /\ r_pc = "idle"
    /\ r_error = ""
    /\ parsed = None
    /\ dicts_read = <<>>
    /\ reads = <<>>
    /\ encoded_file = <<>>
    /\ CodecIdle

ctx_vars == <<string_section, string_references, image_section,
              image_references>>

\* A slot table that stores 1 as the count of every populated slot other
\* than Textures
SlotTableWithOtherCounts(self) ==
    [k \in 1..(8 * SlotCount) |->
        IF /\ k % 8 = 1
           /\ (k - 1) \div 8 # TexturesSlot
           /\ self.unit_dicts[((k - 1) \div 8) + 1].some
        THEN 1 ELSE 0]

\* Lines 364-367: a count and an offset of 0 for each of the 16 slots,
\* whatever the container holds
SlotTable(self) == Repeat(0, 8 * SlotCount)

\* to_buffer_debug, lines 354-385: the header, the sixteen empty slots and,
\* with a Textures dictionary, its slot
ToBufferBegin ==
    /\ w_pc = "call_to_buffer"
    /\ LET self == container.v
           header_bytes == CgfxHeaderWrite(self.header)
           dict_pointers_location == Len(header_bytes)
           slots == header_bytes \o SlotTable(self)
           reference_offset == dict_pointers_location + 8
           current_offset == Len(slots)
           relative_offset == current_offset - (reference_offset + 4)
           count == Len(self.textures.v.nodes) - 1
       IN
       /\ string_section' = <<>>
       /\ string_references' = {}
       /\ image_section' = <<>>
       /\ image_references' = {}
       /\ w_node' = 0
       /\ IF ~self.textures.some
          THEN /\ out' = slots
               /\ string_section_start' = Len(slots)
               /\ w_pc' = "string_references"
               /\ UNCHANGED <<dict, w_error>>
          ELSE IF count < 0
          THEN /\ out' = slots
               /\ w_pc' = IF overflow_checks THEN "panic" ELSE "err"
               /\ w_error' = IF overflow_checks
                             THEN "attempt to subtract with overflow"
                             ELSE "out of range integral type conversion attempted"
               /\ UNCHANGED <<dict, string_section_start>>
          ELSE /\ out' = write_at_pointer(
                             write_at_pointer(slots, reference_offset,
                                              U32Bytes(count)),
                             reference_offset + 4, U32Bytes(relative_offset))
               /\ dict' = self.textures
               /\ w_pc' = "call_to_writer"
               /\ UNCHANGED <<w_error, string_section_start>>
    /\ UNCHANGED <<container, w_direct, image_section_offset, round, original,
                   reader_vars, not_cgfx>>

\* The assertion of line 213: values_count + 1 is a u32 sum
NodeCountMatches(values_count, node_count, checks) ==
    LET sum == AddU32(values_count, U32Of(1)) IN
    IF sum.overflow /\ checks
    THEN [ok |-> FALSE, error |-> "attempt to add with overflow"]
    ELSE IF sum.val # U32Of(node_count)
    THEN [ok |-> FALSE, error |-> "values_count does not match node count"]
    ELSE [ok |-> TRUE, error |-> ""]

\* CgfxDict::to_writer, lines 212-217: the assertion and the twelve header
\* bytes
DictToWriterBegin ==
    /\ w_pc = "call_to_writer"
    /\ LET self == dict.v
           assertion == NodeCountMatches(self.values_count, Len(self.nodes),
                                         overflow_checks)
       IN IF ~assertion.ok
          THEN /\ w_pc' = "panic"
               /\ w_error' = assertion.error
               /\ UNCHANGED out
          ELSE /\ out' = out \o self.magic_number \o WriteU32(self.tree_length)
                             \o WriteU32(self.values_count)
               /\ w_pc' = "nodes"
               /\ UNCHANGED w_error
    /\ w_node' = 0
    /\ UNCHANGED <<container, dict, w_direct, ctx_vars, string_section_start,
                   image_section_offset, round, original, reader_vars, not_cgfx>>

\* The current position taken relative to the start of the node's record
RelativeToRecordStart(current_offset, value_pointer_location) ==
    current_offset - (value_pointer_location - 12)

\* Line 226: current_offset - value_pointer_location
RelativeValueOffset(current_offset, value_pointer_location) ==
    current_offset - value_pointer_location

\* One turn of the loop of lines 219-233: the node's record, then its value
\* right behind it
WriteNode ==
    /\ w_pc = "nodes"
    /\ w_node < Len(dict.v.nodes)
    /\ LET node == dict.v.nodes[w_node + 1]
           name_pointer_location == Len(out) + 8
           value_pointer_location == Len(out) + 12
           with_node == out \o CgfxNodeBytes(node)
           section == IF node.name.some
                      THEN add_string(string_section, node.name.v)
                      ELSE string_section
           references == IF node.name.some
                         THEN Insert(string_references, name_pointer_location,
                                     node.name.v)
                         ELSE string_references
           current_offset == Len(with_node)
           relative_value_offset ==
               RelativeValueOffset(current_offset, value_pointer_location)
           value == CgfxTextureToWriter(node.value.v, current_offset, section,
                                        references, image_section,
                                        image_references)
       IN IF ~node.value.some
          THEN /\ out' = with_node
               /\ string_section' = section
               /\ string_references' = references
               /\ w_node' = w_node + 1
               /\ UNCHANGED <<w_pc, w_error, image_section, image_references>>
          ELSE /\ out' = write_at_pointer(with_node, value_pointer_location,
                                          U32Bytes(relative_value_offset))
                         \o (IF value.outcome = "ok" THEN value.bytes ELSE <<>>)
               /\ string_section' = value.string_section
               /\ string_references' = value.string_references
               /\ image_section' = value.image_section
               /\ image_references' = value.image_references
               /\ w_node' = w_node + 1
               /\ w_pc' = IF value.outcome = "ok" THEN "nodes" ELSE value.outcome
               /\ w_error' = value.error
    /\ UNCHANGED <<container, dict, w_direct, string_section_start,
                   image_section_offset, round, original, reader_vars, not_cgfx>>

\* CgfxDict::to_writer returns (line 236); to_buffer goes on at line 388
DictToWriterReturn ==
    /\ w_pc = "nodes"
    /\ w_node = Len(dict.v.nodes)
    /\ IF w_direct
       THEN /\ w_pc' = "dict_written"
            /\ UNCHANGED string_section_start
       ELSE /\ w_pc' = "string_references"
            /\ string_section_start' = Len(out)
    /\ UNCHANGED <<container, dict, w_direct, w_error, out, w_node, ctx_vars,
                   image_section_offset, round, original, reader_vars, not_cgfx>>

\* One turn of the loop of lines 390-397; a HashMap is walked in no
\* particular order
ApplyStringReference(reference) ==
    /\ w_pc = "string_references"
    /\ reference \in string_references
    /\ LET location == reference[1]
           string_offset_usize == find(string_section, reference[2])
           string_offset == string_offset_usize + string_section_start
           relative_offset == string_offset - location
       IN IF string_offset_usize = NotFound
          THEN UNCHANGED <<out, w_pc, w_error>>
          ELSE IF relative_offset < 0 /\ overflow_checks
          THEN /\ w_pc' = "panic"
               /\ w_error' = "attempt to subtract with overflow"
               /\ UNCHANGED out
          ELSE /\ out' = write_at_pointer(out, location, U32Bytes(relative_offset))
               /\ UNCHANGED <<w_pc, w_error>>
    /\ string_references' = string_references \ {reference}
    /\ UNCHANGED <<container, dict, w_direct, w_node, string_section,
                   image_section, image_references, string_section_start,
                   image_section_offset, round, original, reader_vars, not_cgfx>>

\* Lines 399-410: the strings, then zeros up to eight bytes short of a
\* multiple of 128
WriteStrings ==
    /\ w_pc = "string_references"
    /\ string_references = {}
    /\ LET with_strings == out \o string_section
           padded == with_strings \o Repeat(0, padding_size(Len(with_strings)))
       IN /\ out' = padded
          /\ image_section_offset' = Len(padded) + 8
    /\ w_pc' = "image_references"
    /\ UNCHANGED <<container, dict, w_direct, w_error, w_node, ctx_vars,
                   string_section_start, round, original, reader_vars, not_cgfx>>

\* mutant of ApplyImageReference: the offset is taken from the IMAG tag
ApplyImageReferenceFromTag(reference) ==
    /\ w_pc = "image_references"
    /\ reference \in image_references
    /\ out' = write_at_pointer(out, reference[1],
                               U32Bytes(image_section_offset - 8 + reference[2]
                                        - reference[1]))
    /\ image_references' = image_references \ {reference}
    /\ UNCHANGED <<container, dict, w_direct, w_pc, w_error, w_node,
                   string_section, string_references, image_section,
                   string_section_start, image_section_offset, round, original,
                   reader_vars, not_cgfx>>

\* One turn of the loop of lines 412-417
ApplyImageReference(reference) ==
    /\ w_pc = "image_references"
    /\ reference \in image_references
    /\ LET location == reference[1]
           absolute_offset == image_section_offset + reference[2]
           relative_offset == absolute_offset - location
       IN IF relative_offset < 0 /\ overflow_checks
          THEN /\ w_pc' = "panic"
               /\ w_error' = "attempt to subtract with overflow"
               /\ UNCHANGED out
          ELSE /\ out' = write_at_pointer(out, location, U32Bytes(relative_offset))
               /\ UNCHANGED <<w_pc, w_error>>
    /\ image_references' = image_references \ {reference}
    /\ UNCHANGED <<container, dict, w_direct, w_node, string_section,
                   string_references, image_section, string_section_start,
                   image_section_offset, round, original, reader_vars, not_cgfx>>

\* mutant of FileLengthMatches: the assertion is left out
FileLengthUnchecked(length, file_length) == TRUE

\* The assertion of lines 430-433
FileLengthMatches(length, file_length) == U32Of(length) = file_length

\* Lines 421-435: the image section, the length assertion, the return
WriteImageSection ==
    /\ w_pc = "image_references"
    /\ image_references = {}
    /\ LET image_section_length == Len(image_section)
           written == out \o ImagMagic \o U32Bytes(image_section_length + 8)
                          \o image_section
       IN /\ out' = written
          /\ IF FileLengthMatches(Len(written), container.v.header.file_length)
             THEN /\ w_pc' = "returned"
                  /\ UNCHANGED w_error
             ELSE /\ w_pc' = "panic"
                  /\ w_error' = "Written file size does not match expected file size"
    /\ UNCHANGED <<container, dict, w_direct, w_node, ctx_vars,
                   string_section_start, image_section_offset, round, original,
                   reader_vars, not_cgfx>>

----------------------------------------------------------------------------
(* The buffers given to CgfxContainer::new                                 *)

RECURSIVE Patched(_, _)
\* buf with the u32 fields named by patches (pairs of offset and value)
\* overwritten
Patched(buf, patches) ==
    IF patches = <<>> THEN buf
    ELSE Patched(write_at_pointer(buf, patches[1][1], WriteU32(patches[1][2])),
                 Tail(patches))

\* The offset of the textures slot's count (lines 374, 380)
TexturesReference == HeaderSize + 8 * TexturesSlot

\* The buffers tried that differ from a buffer the writer returned: another
\* slot (index 2, luts) refers to the Textures dictionary too; the
\* dictionary's values_count is u32::MAX; the name pointer of its first node
\* is so large that the offset computed from it passes u32::MAX; the count
\* of the Textures slot is one more than the writer stored
FilePatches(buf) ==
    LET relative == ReadU32(buf, TexturesReference + 4)
        dict_start == TexturesReference + 4 + relative.lo
        luts == HeaderSize + 8 * 2
        count == ReadU32(buf, TexturesReference)
    IN
    IF relative = U32Of(0) THEN { << <<TexturesReference, U32Of(1)>> >> }
    ELSE { << <<luts, ReadU32(buf, TexturesReference)>>,
              <<luts + 4, U32Of(relative.lo - 8)>> >>,
           << <<TexturesReference, U32Of(count.lo + 1)>> >>,
           << <<dict_start + 8, U32Max>> >>,
           << <<NodePosition(dict_start, 0) + 8, [hi |-> 255, lo |-> 16777208]>> >> }

\* A buffer arrives at CgfxContainer::new: what to_buffer returned, or one
\* of the buffers that differ from it
ReceiveFile ==
    /\ w_pc = "returned"
    /\ round = 1
    /\ r_pc = "idle"
    /\ \E patches \in {<<>>} \cup FilePatches(out) :
          file' = Patched(out, patches)
    /\ encoded_file' = out
    /\ r_pc' = "call_new"
    /\ UNCHANGED <<r_error, parsed, dicts_read, reads, writer_vars,
                   string_section, not_cgfx>>

\* CgfxContainer::new(file)
ContainerNew ==
    /\ r_pc = "call_new"
    /\ \E r \in {CgfxContainerNew(file, overflow_checks)} :
       /\ r_pc' = r.outcome
       /\ r_error' = r.error
       /\ parsed' = r.value.container
       /\ dicts_read' = r.value.dicts
       /\ reads' = r.reads
    /\ UNCHANGED <<file, encoded_file, writer_vars, string_section, not_cgfx>>

\* tests.rs lines 22-47, reencode_bcres_files: the parsed container is
\* written again
Reencode ==
    /\ r_pc = "ok"
    /\ round = 1
    /\ round' = 2
    /\ container' = parsed
    /\ w_pc' = "call_to_buffer"
    /\ out' = <<>>
    /\ UNCHANGED <<dict, w_direct, w_error, w_node, ctx_vars,
                   string_section_start, image_section_offset, original,
                   reader_vars, not_cgfx>>

NextCgfx ==
    \/ ToBufferBegin
    \/ DictToWriterBegin
    \/ WriteNode
    \/ DictToWriterReturn
    \/ \E reference \in string_references : ApplyStringReference(reference)
    \/ WriteStrings
    \/ \E reference \in image_references : ApplyImageReference(reference)
    \/ WriteImageSection
    \/ ReceiveFile
    \/ ContainerNew
    \/ Reencode

SpecCgfx == InitCgfx /\ [][NextCgfx]_vars

----------------------------------------------------------------------------
(* Claims about the container, the dictionary and their pointers           *)

\* to_buffer or CgfxDict::to_writer has ended, one way or the other
WriterEnded == w_pc \in {"returned", "dict_written", "panic", "err"}

\* CgfxContainer::new has ended, one way or the other
ReaderEnded == r_pc \in {"ok", "err", "panic", "unmodelled"}

\* The first n bytes of buf (all of it when it is shorter)
FirstBytes(buf, n) == Slice(buf, 0, Min2(n, Len(buf)))

\* C1: for every buffer accepted by CgfxContainer::new, to_buffer on the
\* parsed container returns exactly the first header.file_length bytes of
\* that buffer.
C1_ReencodeIsByteIdentical ==
    (round = 2 /\ WriterEnded) =>
        /\ w_pc = "returned"
        /\ container.v.header.file_length.hi = 0
        /\ out = FirstBytes(file, container.v.header.file_length.lo)

\* Every texture of the dictionary carries its image data
AllImagesPresent(d) ==
    \A i \in 1..Len(d.nodes) :
        d.nodes[i].value.some => d.nodes[i].value.v.image.some

\* Structural equality of two dictionaries: the same values_count, the same
\* number of nodes, and node by node the same reference_bit, child indices,
\* name and value
DictsEqual(a, b) ==
    /\ a.values_count = b.values_count
    /\ Len(a.nodes) = Len(b.nodes)
    /\ \A i \in 1..Min2(Len(a.nodes), Len(b.nodes)) :
          /\ a.nodes[i].reference_bit = b.nodes[i].reference_bit
          /\ a.nodes[i].left_node_index = b.nodes[i].left_node_index
          /\ a.nodes[i].right_node_index = b.nodes[i].right_node_index
          /\ a.nodes[i].name = b.nodes[i].name
          /\ a.nodes[i].value = b.nodes[i].value

\* C2: for every well-formed container C (to_buffer returns its buffer, and
\* every texture carries its image data) whose Textures dictionary has any
\* number of nodes, two or more of them with a value included,
\* CgfxContainer::new(C.to_buffer()) yields a Textures dictionary
\* structurally equal to C's.
C2_TexturesRoundTrip ==
    (round = 1 /\ ReaderEnded /\ file = out /\ original.v.textures.some
       /\ AllImagesPresent(original.v.textures.v)) =>
        /\ r_pc = "ok"
        /\ parsed.v.textures.some
        /\ DictsEqual(parsed.v.textures.v, original.v.textures.v)

\* C5: to_buffer never returns a buffer whose length differs from
\* header.file_length: the step that writes the image section ends in a
\* return exactly when the bytes emitted are header.file_length many and in
\* a panic otherwise, and no other step returns.
C5_ReturnsOnlyDeclaredLength ==
    [][/\ (w_pc = "image_references" /\ image_references = {}) =>
            /\ w_pc' \in {"returned", "panic"}
            /\ w_pc' = "returned" <=>
                   U32Of(Len(out')) = container.v.header.file_length
       /\ w_pc' = "returned" =>
            U32Of(Len(out')) = container'.v.header.file_length]_vars

\* C5 witness: a container with a texture and its image has been written and
\* returned
C5_Witness ==
    /\ w_pc = "returned"
    /\ round = 1
    /\ Len(image_section) > 0
    /\ Len(out) = 388

\* nodes.len() differs from values_count + 1
NodeCountDiffers(d) ==
    ~(Len(d.nodes) >= 1 /\ d.values_count = U32Of(Len(d.nodes) - 1))

\* C6: CgfxDict::to_writer fails hard, before writing any byte of the
\* dictionary, whenever nodes.len() differs from values_count + 1.
C6_WriterRejectsNodeCountMismatch ==
    (w_direct /\ w_pc # "call_to_writer" /\ NodeCountDiffers(dict.v)) =>
        /\ w_pc = "panic"
        /\ out = <<>>

\* C7: every dictionary returned by CgfxDict::from_reader has exactly
\* values_count + 1 nodes, for every 32-bit values_count stored in the
\* buffer.
C7_ReaderNodeCount ==
    \A k \in 1..Len(dicts_read) : ~NodeCountDiffers(dicts_read[k].dict.v)

\* The offset at which the record of node i of the dictionary at start
\* begins
RecordOffset(start, i) == start + 12 + 16 * i

\* Node i of the dictionary d read at start got its name and its value from
\* the offsets its own record gives
NodeReadWhereItsRecordSays(d, start, i, typed) ==
    LET node == d.nodes[i + 1]
        name_pointer == ReadU32(file, RecordOffset(start, i) + 8)
        value_pointer == ReadU32(file, RecordOffset(start, i) + 12)
        name_at == AddU32(U32Of(RecordOffset(start, i) + 8), name_pointer).val
        value_at == AddU32(U32Of(RecordOffset(start, i) + 12), value_pointer).val
    IN
    /\ IF name_pointer = U32Of(0) THEN node.name = None
       ELSE /\ node.name = Some(read_string(file, name_at).string)
            /\ \E k \in 1..Len(reads) :
                  reads[k] = NodeReadLog("node_name", start, i, name_pointer,
                                         name_at)
    /\ IF value_pointer = U32Of(0) THEN node.value = None
       ELSE /\ node.value = read_dict_value(file, value_at, typed).value
            /\ \E k \in 1..Len(reads) :
                  reads[k] = NodeReadLog("node_value", start, i, value_pointer,
                                         value_at)

\* C8: in CgfxDict::from_reader the name of a node with a non-zero name
\* pointer is read at node_file_offset + 8 + name_pointer and its value at
\* node_file_offset + 12 + value_pointer (u32 sums), node_file_offset being
\* where the node's own 16-byte record begins; no read made for a node goes
\* anywhere else.
C8_NodeReadsRelativeToOwnRecord ==
    /\ \A k \in 1..Len(dicts_read) :
          \A i \in 0..(Len(dicts_read[k].dict.v.nodes) - 1) :
             NodeReadWhereItsRecordSays(dicts_read[k].dict.v,
                                        dicts_read[k].at.v.lo, i,
                                        dicts_read[k].typed)
    /\ \A k \in 1..Len(reads) :
          reads[k].kind \in {"node_name", "node_value"} =>
             LET field == RecordOffset(reads[k].dict_start, reads[k].index)
                          + (IF reads[k].kind = "node_name" THEN 8 ELSE 12)
             IN /\ reads[k].stored = ReadU32(file, field)
                /\ reads[k].target = AddU32(U32Of(field), reads[k].stored).val

\* C8 witness: a dictionary was returned whose second node has a name and a
\* texture, both read through its pointers
C8_Witness ==
    /\ r_pc = "ok"
    /\ parsed.v.textures.some
    /\ Len(parsed.v.textures.v.nodes) >= 2
    /\ parsed.v.textures.v.nodes[2].name = Some(<<97, 98>>)
    /\ parsed.v.textures.v.nodes[2].value.some
    /\ \E k \in 1..Len(reads) :
          reads[k].kind = "node_value" /\ reads[k].index = 1

----------------------------------------------------------------------------
(* src/lib.rs: ArchiveRegistry::new and RegistryItem::read                 *)

\* 0x1e64, the offset RegistryItem::read adds to every id pointer (line 70)
IdBase == 7780

\* A registry buffer is kept as its first bytes (head), a run of zero bytes
\* (gap many) and its last bytes (tail): the item table is short and the
\* strings lie at 0x1e64
RegLen(b) == Len(b.head) + b.gap + Len(b.tail)

\* buffer[i]
RegAt(b, i) ==
    IF i < Len(b.head) THEN b.head[i + 1]
    ELSE IF i < Len(b.head) + b.gap THEN 0
    ELSE b.tail[i - Len(b.head) - b.gap + 1]

\* read_u32::<LittleEndian> at offset i
RegReadU32(b, i) ==
    [hi |-> RegAt(b, i + 3),
     lo |-> RegAt(b, i) + 256 * RegAt(b, i + 1) + 65536 * RegAt(b, i + 2)]

RECURSIVE RegNulAt(_, _)
\* position(|&x| x == 0x0) of line 15, as an offset into the buffer (its
\* length when there is no NUL byte)
RegNulAt(b, i) ==
    IF i >= RegLen(b) THEN RegLen(b)
    ELSE IF RegAt(b, i) = 0 THEN i ELSE RegNulAt(b, i + 1)

\* get_string, lines 13-24: the slice bytes[start..] panics when start lies
\* past the end
get_string(b, start) ==
    IF start > RegLen(b)
    THEN Result("panic", "range start index out of range", <<>>, <<>>)
    ELSE IF ~Utf8Valid([k \in 1..(RegNulAt(b, start) - start) |->
                           RegAt(b, start + k - 1)])
    THEN Result("err", "invalid utf-8 sequence", <<>>, <<>>)
    ELSE Result("ok", "",
                [k \in 1..(RegNulAt(b, start) - start) |-> RegAt(b, start + k - 1)],
                <<>>)

\* Lines 69-77: the id is read at id_pointer + 0x1e64
RegistryItemId(b, at, stored, target) ==
    IF ~target.ok
    THEN Result("panic", "unwrap on an Err value", None, <<>>)
    ELSE IF get_string(b, target.val.lo).outcome # "ok"
    THEN Result(get_string(b, target.val.lo).outcome,
                get_string(b, target.val.lo).error, None,
                <<[stored |-> stored, target |-> target.val]>>)
    ELSE Result("ok", "",
                [id |-> get_string(b, target.val.lo).value,
                 file_offset |-> RegReadU32(b, at + 4),
                 field_0x8 |-> RegReadU32(b, at + 8),
                 byte_length |-> RegReadU32(b, at + 12)],
                <<[stored |-> stored, target |-> target.val]>>)

\* Lines 63-64 and 70: Pointer::read(reader)?.unwrap_or(Pointer::default())
\* turns a stored 0, read as None, into Pointer(0); 0x1e64 is added to it
IdPointer(stored) == PointerAddI32(stored, IdBase)

\* RegistryItem::read, lines 62-78, with the reader at offset at
RegistryItemRead(b, at) ==
    IF at + 16 > RegLen(b)
    THEN Result("err", "failed to fill whole buffer", None, <<>>)
    ELSE RegistryItemId(b, at, RegReadU32(b, at), IdPointer(RegReadU32(b, at)))

\* Bound: the most items a registry buffer declares
MaxItems == 2

\* The string table of the registry buffers: "a", "ab"
IdStrings == <<97, 0, 97, 98, 0>>

\* The id pointers stored in the items: to "a" (the first string, offset 0),
\* to "ab", into "ab", to the end of the table, and u32::MAX
IdPointers == {U32Of(0), U32Of(2), U32Of(3), U32Of(5), U32Max}

\* The sixteen bytes of an item
ItemBytes(id_pointer) ==
    WriteU32(id_pointer) \o WriteU32(U32Of(64)) \o WriteU32(U32Of(0))
    \o WriteU32(U32Of(32))

RECURSIVE Flatten(_)
Flatten(seqs) == IF seqs = <<>> THEN <<>> ELSE Head(seqs) \o Flatten(Tail(seqs))

\* The registry buffers: the item count, the items, zero bytes up to 0x1e64
\* and the string table
RegistryBuffers ==
    { [head |-> WriteU32(U32Of(n)) \o Flatten([i \in 1..n |-> ItemBytes(ids[i])]),
       gap |-> IdBase - 4 - 16 * n,
       tail |-> IdStrings] :
         <<n, ids>> \in UNION { {n} \X [1..n -> IdPointers] : n \in 0..MaxItems } }

InitRegistry ==
    /\ overflow_checks \in BOOLEAN
    /\ blz_pc = "idle"
    /\ blz_error = ""
    /\ original_input = <<>>
    /\ input_buffer = <<>>
    /\ BlzIdle
    /\ string_section = <<>>
    /\ pool_prev = <<>>
    /\ pool_last = <<>>
    /\ pool_calls = 0
    /\ CgfxIdle
    /\ reg_buffer \in RegistryBuffers
    /\ reg_pc = "call_new"
    /\ reg_error = ""
    /\ reg_position = 0
    /\ item_count = 0
    /\ items = <<>>
    /\ reg_reads = <<>>
    /\ CodecIdle

\* ArchiveRegistry::new, lines 97-101: the item count is read
RegistryNewBegin ==
    /\ reg_pc = "call_new"
    /\ IF RegLen(reg_buffer) < 4
       THEN /\ reg_pc' = "err"
            /\ reg_error' = "failed to fill whole buffer"
            /\ UNCHANGED <<item_count, reg_position>>
       ELSE /\ reg_pc' = "items"
            /\ item_count' = RegReadU32(reg_buffer, 0)
            /\ reg_position' = 4
            /\ UNCHANGED reg_error
    /\ UNCHANGED <<reg_buffer, items, reg_reads, not_reg>>

\* One turn of the loop of lines 104-106
RegistryNewItem ==
    /\ reg_pc = "items"
    /\ U32Of(Len(items)) # item_count
    /\ \E r \in {RegistryItemRead(reg_buffer, reg_position)} :
          /\ reg_reads' = reg_reads \o r.reads
          /\ IF r.outcome = "ok"
             THEN /\ items' = Append(items, r.value)
                  /\ reg_position' = reg_position + 16
                  /\ UNCHANGED <<reg_pc, reg_error>>
             ELSE /\ reg_pc' = r.outcome
                  /\ reg_error' = r.error
                  /\ UNCHANGED <<items, reg_position>>
    /\ UNCHANGED <<reg_buffer, item_count, not_reg>>

\* ArchiveRegistry::new returns, line 108
RegistryNewReturn ==
    /\ reg_pc = "items"
    /\ U32Of(Len(items)) = item_count
    /\ reg_pc' = "returned"
    /\ UNCHANGED <<reg_buffer, reg_error, reg_position, item_count, items,
                   reg_reads, not_reg>>

NextRegistry ==
    \/ RegistryNewBegin
    \/ RegistryNewItem
    \/ RegistryNewReturn

SpecRegistry == InitRegistry /\ [][NextRegistry]_vars

\* C9: for all pointer fields read by this program, a stored value of 0
\* decodes to "absent" and no read is ever performed at an offset derived
\* from a stored 0: no id string of a registry item is read through an id
\* pointer stored as 0.
C9_StoredZeroIsNeverFollowed ==
    \A k \in 1..Len(reg_reads) : reg_reads[k].stored # U32Of(0)

----------------------------------------------------------------------------
(* blz_decode on buffers that did not come from blz_encode                 *)

\* Bound of the bytes that precede the 8-byte footer
MaxDecodeBody == 4

\* The byte values of those bytes: a literal, a back-reference header with
\* length nibble 2, and a flag byte whose first flag is set
DecodeBytes == {0, 32, 128}

\* The footer: the 24-bit encoded length, the footer-length byte, and the
\* 32-bit size increase
Footer(encoded_length, header_length, increase) ==
    U24Bytes(encoded_length) \o <<header_length>> \o WriteU32(increase)

EncodedLengths == {0, 8, 12}
HeaderLengths == {0, 8, 11, 12}
SizeIncreases == {U32Of(1), U32Of(2), U32(255, 16777208)}

\* Buffers with three unencoded bytes, then an encoded region of one flag
\* byte and one back-reference token (stored last byte first), two filler
\* bytes and the footer: the token copies 4 or 14 bytes from 3 or 4 bytes
\* before the end of the output
BackReferenceInputs ==
    {head \o <<low, high, 128, 255, 255>> \o Footer(13, 10, inc) :
        head \in {<<1, 2, 3>>, <<7, 7, 7>>},
        low \in {0, 1}, high \in {16, 176}, inc \in {U32Of(1), U32Of(2)}}

\* The buffers blz_decode is called on
DecodeInputs ==
    {body \o Footer(e, h, inc) :
        body \in SeqsOf(DecodeBytes, 0, MaxDecodeBody),
        e \in EncodedLengths, h \in HeaderLengths, inc \in SizeIncreases}
    \cup BackReferenceInputs

InitBlzDecode ==
    /\ overflow_checks \in BOOLEAN
    /\ blz_pc = "encoded"
    /\ blz_error = ""
    /\ input_buffer = <<>>
    /\ original_input = <<>>
    /\ input_position = 0
    /\ result_buffer = <<>>
    /\ flag_index = 0
    /\ mask = 0
    /\ input_bytes_left = 0
    /\ result_bytes_written = 0
    /\ position_best = NoPosition
    /\ container_buffer \in DecodeInputs
    /\ encoded_buffer = <<>>
    /\ encoded_position = 0
    /\ d_mask = 0
    /\ d_flags = 0
    /\ d_result = <<>>
    /\ result_size = 0
    /\ unencoded_length = 0
    /\ string_section = <<>>
    /\ pool_prev = <<>>
    /\ pool_last = <<>>
    /\ pool_calls = 0
    /\ CgfxIdle
    /\ RegIdle
    /\ CodecIdle

NextBlzDecode ==
    \/ DecodeBegin
    \/ DecodeStep
    \/ DecodeFinish

SpecBlzDecode == InitBlzDecode /\ [][NextBlzDecode]_vars

\* the footer fields of the buffer blz_decode was called on
FooterLengthByte == At(container_buffer, Len(container_buffer) - 5)
EncodedLengthField == Low24At(container_buffer, Len(container_buffer) - 8)

\* C13: blz_decode never returns a decoded buffer for an input whose
\* footer-length byte is outside [8,11] or whose encoded-length field minus
\* the footer length is not positive.
C13_DecodeRejectsBadFooter ==
    (/\ blz_pc = "decoded"
     /\ Len(container_buffer) >= 8)
        => /\ FooterLengthByte \in 8..11
           /\ EncodedLengthField - FooterLengthByte > 0

\* the loop of blz_decode is about to run an iteration that finds no flag
\* byte, no literal byte or no complete back-reference left in the stream
StreamExhausted ==
    /\ blz_pc = "decode_loop"
    /\ Len(d_result) < result_size
    /\ DecodeIteration(encoded_buffer, encoded_position, d_mask, d_flags,
                       d_result, result_size).outcome \in {"break", "err"}

\* C17: when the encoded stream is exhausted before the output reaches the
\* declared result size, decoding ends normally: the loop is left without an
\* error, and blz_decode then returns the output produced so far.
C17_ExhaustedStreamEndsNormally ==
    [][/\ StreamExhausted => (blz_pc' = "decode_break" /\ d_result' = d_result)
       /\ blz_pc = "decode_break" => blz_pc' = "decoded"]_vars

----------------------------------------------------------------------------
(* Claims about the slot table of the container                            *)

\* where the 4-byte offset field of a slot starts
OffsetFieldPosition(slot) == HeaderSize + 8 * slot + 4

\* the value stored in the offset field of a slot of the buffer read
RawOffset(slot) == ReadU32(file, OffsetFieldPosition(slot))

\* to_buffer has patched the Textures slot and is about to write the
\* dictionary at the end of the buffer
TexturesDictAboutToBeWritten == ~w_direct /\ w_pc = "call_to_writer"

\* C15 as stated: every dictionary CgfxContainer::new read was read at
\* offset_field_position + 4 + raw_value, and to_buffer writes the Textures
\* offset so that this sum is where the dictionary goes.
C15_SlotOffsetAfterField ==
    /\ \A k \in 1..Len(dicts_read) :
          dicts_read[k].at.v =
              AddU32(AddU32(RawOffset(dicts_read[k].slot),
                            U32Of(OffsetFieldPosition(dicts_read[k].slot))).val,
                     U32Of(4)).val
    /\ TexturesDictAboutToBeWritten =>
          AddU32(AddU32(ReadU32(out, OffsetFieldPosition(TexturesSlot)),
                        U32Of(OffsetFieldPosition(TexturesSlot))).val,
                 U32Of(4)).val = U32Of(Len(out))

\* C15 amended: every dictionary CgfxContainer::new read was read at
\* offset_field_position + raw_value (the offset is relative to the start of
\* its own field), and to_buffer writes the Textures offset with that base:
\* offset_field_position + the written value is where the dictionary goes.
C15_SlotOffsetRelativeToField ==
    /\ \A k \in 1..Len(dicts_read) :
          dicts_read[k].at.v =
              AddU32(RawOffset(dicts_read[k].slot),
                     U32Of(OffsetFieldPosition(dicts_read[k].slot))).val
    /\ TexturesDictAboutToBeWritten =>
          AddU32(ReadU32(out, OffsetFieldPosition(TexturesSlot)),
                 U32Of(OffsetFieldPosition(TexturesSlot))).val = U32Of(Len(out))

\* C15 witness: CgfxContainer::new returned a container read from a buffer
\* to_buffer wrote, with the dictionaries of two slots resolved
C15_Witness ==
    /\ r_pc = "ok"
    /\ round = 1
    /\ Len(dicts_read) >= 2
    /\ \E k \in 1..Len(dicts_read) : dicts_read[k].slot = TexturesSlot
    /\ \E k \in 1..Len(dicts_read) : dicts_read[k].slot # TexturesSlot

\* the count field of a slot of the buffer read
DeclaredCount(slot) == ReadU32(file, HeaderSize + 8 * slot)

\* the slot's offset is null and its count 0, or its offset led to a
\* dictionary of declared count + 1 nodes
SlotCountHolds(slot) ==
    IF RawOffset(slot) = U32Of(0)
    THEN DeclaredCount(slot) = U32Of(0)
    ELSE \E k \in 1..Len(dicts_read) :
            /\ dicts_read[k].slot = slot
            /\ DeclaredCount(slot).hi = 0
            /\ Len(dicts_read[k].dict.v.nodes) = DeclaredCount(slot).lo + 1

\* C16: CgfxContainer::new succeeds only if every one of the 16 slots,
\* Models and Textures included, has a null offset with a declared count of 0
\* or an offset that leads to a dictionary of declared count + 1 nodes.
C16_EverySlotCountChecked ==
    r_pc = "ok" => \A slot \in 0..(SlotCount - 1) : SlotCountHolds(slot)

----------------------------------------------------------------------------
(* Claims about what to_buffer writes                                      *)

\* the container holds a dictionary in a slot other than Textures
OtherSlotPopulated(c) ==
    \E i \in 1..SlotCount : i # TexturesSlot + 1 /\ c.unit_dicts[i].some

\* two containers with the same header and the same Textures slot
SameHeaderAndTextures(a, b) ==
    /\ a.header = b.header
    /\ a.textures.some = b.textures.some
    /\ a.textures.some =>
          /\ a.textures.v.magic_number = b.textures.v.magic_number
          /\ a.textures.v.tree_length = b.textures.v.tree_length
          /\ DictsEqual(a.textures.v, b.textures.v)

\* C18: the output of to_buffer depends only on the header and the Textures
\* slot.  A container with the header and the Textures dictionary of the
\* container the first to_buffer returned encoded_file for, whatever its
\* other 15 slots hold, ends without an error and returns the same bytes;
\* every returned buffer has (0,0) in the slot-table entries of all slots
\* other than Textures.
C18_OutputIgnoresOtherSlots ==
    /\ (~w_direct /\ w_pc = "returned") =>
          \A slot \in 0..(SlotCount - 1) :
             slot # TexturesSlot =>
                /\ ReadU32(out, HeaderSize + 8 * slot) = U32Of(0)
                /\ ReadU32(out, HeaderSize + 8 * slot + 4) = U32Of(0)
    /\ (/\ round = 2
        /\ WriterEnded
        /\ SameHeaderAndTextures(container.v, original.v)) =>
          /\ w_pc = "returned"
          /\ out = encoded_file

\* C18 witness: to_buffer returned for a container read with a dictionary in
\* the Luts slot, which has the header and the Textures dictionary of the
\* first container, itself without any dictionary in the other slots
C18_Witness ==
    /\ round = 2
    /\ w_pc = "returned"
    /\ OtherSlotPopulated(container.v)
    /\ ~OtherSlotPopulated(original.v)
    /\ container.v.textures.some
    /\ SameHeaderAndTextures(container.v, original.v)

\* C19: in CgfxDict::to_writer each node's value, when present, is written
\* immediately after that node's 16-byte record and before the next record;
\* the value-pointer field of the record holds current_position -
\* placeholder_location, so that placeholder_location + the stored value is
\* the offset of the value's first byte; a node without a value keeps a 0
\* value pointer and is followed at once by the next record.  Stated of
\* every turn of the node loop: the bytes already written stay, the record
\* starts at the old end of the buffer and the next one at the new end.
C19_ValueFollowsItsRecord ==
    [][(w_pc = "nodes" /\ w_node' = w_node + 1) =>
          LET record == Len(out)
              node == dict.v.nodes[w_node + 1]
              placeholder_location == record + 12
              stored == ReadU32(out', placeholder_location)
          IN /\ Len(out') >= record + NodeSize
             /\ Slice(out', 0, record) = out
             /\ ReadU32(out', record) = node.reference_bit
             /\ IF node.value.some
                THEN /\ stored.hi = 0
                     /\ placeholder_location + stored.lo = record + NodeSize
                     /\ w_pc' = "nodes" =>
                           /\ Len(out') > record + NodeSize
                           /\ ReadU32(out', record + NodeSize) = ImageDiscriminant
                ELSE /\ stored = U32Of(0)
                     /\ Len(out') = record + NodeSize]_vars

\* C19 witness: the loop has written a node with a value and, behind that
\* value, a node without one
C19_Witness ==
    /\ w_pc = "nodes"
    /\ w_node = 2
    /\ dict.v.nodes[1].value.some
    /\ ~dict.v.nodes[2].value.some
    /\ Len(out) > 2 * NodeSize + DictHeaderSize

\* Bound: the largest writer position the padding is computed for
MaxSize == 300

\* ((-size - 8) mod 128 + 128) mod 128, with the mathematical mod
StatedPadding(size) == (((-size - 8) % 128) + 128) % 128

\* C20: the number of zero bytes to_buffer writes after the string pool is
\* p = ((-size - 8) mod 128 + 128) mod 128 for the writer position size at
\* the end of the pool; 0 <= p < 128 and size + p + 8 is a multiple of 128,
\* so the raw image bytes, 8 bytes after the padding, start at a multiple of
\* 128.  Stated of the step that writes the pool and the padding, of the
\* image section offset, and of padding_size at every size up to MaxSize.
C20_PaddingAlignsImageBytes ==
    [][/\ (w_pc = "string_references" /\ w_pc' = "image_references") =>
             LET size == Len(out) + Len(string_section)
                 p == Len(out') - size
             IN /\ p = StatedPadding(size)
                /\ 0 <= p /\ p < 128
                /\ (size + p + 8) % 128 = 0
                /\ Slice(out', 0, size) = out \o string_section
                /\ Slice(out', size, Len(out')) = Repeat(0, p)
                /\ image_section_offset' = size + p + 8
       /\ (w_pc = "image_references" /\ w_pc' = "returned") =>
             /\ image_section_offset % 128 = 0
             /\ Slice(out', image_section_offset, Len(out')) = image_section
       /\ \A size \in 0..MaxSize :
             /\ padding_size(size) = StatedPadding(size)
             /\ padding_size(size) \in 0..127
             /\ (size + padding_size(size) + 8) % 128 = 0]_vars

\* C20 witness: to_buffer returned a buffer with names in the string pool,
\* padding behind it and image bytes behind the IMAG tag
C20_Witness ==
    /\ w_pc = "returned"
    /\ string_section # <<>>
    /\ image_section # <<>>
    /\ image_section_offset % 128 = 0
    /\ string_section_start + Len(string_section) + 8 < image_section_offset
    /\ Slice(out, image_section_offset, Len(out)) = image_section

----------------------------------------------------------------------------
(* image_codec.rs: decode_swizzled_buffer                                  *)

\* PicaTextureFormat (texture.rs, lines 14-29)
PicaTextureFormats ==
    {"RGBA8", "RGB8", "RGBA5551", "RGB565", "RGBA4", "LA8", "HiLo8", "L8",
     "A8", "LA4", "L4", "A4", "ETC1", "ETC1A4"}

\* PicaTextureFormat::get_bpp (texture.rs, lines 32-49)
get_bpp(format) ==
    CASE format = "RGBA8" -> 32
      [] format = "RGB8" -> 24
      [] format \in {"RGBA5551", "RGB565", "RGBA4", "LA8", "HiLo8"} -> 16
      [] format \in {"L8", "A8", "LA4"} -> 8
      [] format \in {"L4", "A4"} -> 4
      [] format = "ETC1" -> 4
      [] format = "ETC1A4" -> 8

\* let bytes_per_pixel = max(input_format.get_bpp() / 8, 1) (line 116)
bytes_per_pixel(format) == Max2(get_bpp(format) \div 8, 1)

\* SWIZZLE_LUT (lines 100-109); the k-th entry of the array is SWIZZLE_LUT[k + 1]
SWIZZLE_LUT ==
    << 0,  1,  8,  9,  2,  3, 10, 11,
      16, 17, 24, 25, 18, 19, 26, 27,
       4,  5, 12, 13,  6,  7, 14, 15,
      20, 21, 28, 29, 22, 23, 30, 31,
      32, 33, 40, 41, 34, 35, 42, 43,
      48, 49, 56, 57, 50, 51, 58, 59,
      36, 37, 44, 45, 38, 39, 46, 47,
      52, 53, 60, 61, 54, 55, 62, 63 >>

\* The operators & and | on unsigned integers of the given number of bits
RECURSIVE BitAnd(_, _, _)
BitAnd(a, b, bits) ==
    IF bits = 0 \/ a = 0 \/ b = 0 THEN 0
    ELSE (a % 2) * (b % 2) + 2 * BitAnd(a \div 2, b \div 2, bits - 1)

RECURSIVE BitOr(_, _, _)
BitOr(a, b, bits) ==
    IF bits = 0 \/ (a = 0 /\ b = 0) THEN 0
    ELSE Max2(a % 2, b % 2) + 2 * BitOr(a \div 2, b \div 2, bits - 1)

\* << on a u8 (bits shifted out are dropped; the shift amounts of the code are
\* below 8, so the overflow check of a debug build never fires) and >>
Shl8(c, n) == (c * 2^n) % 256
Shr(c, n) == c \div 2^n

\* RgbaColor::default(), grayscale, grayscale_alpha, from_alpha (lines 10-48)
RgbaColor(r, g, b, a) == [r |-> r, g |-> g, b |-> b, a |-> a]
RgbaDefault == RgbaColor(0, 0, 0, 0)
grayscale(lightness) == RgbaColor(lightness, lightness, lightness, 255)
grayscale_alpha(lightness, alpha) == RgbaColor(lightness, lightness, lightness, alpha)
from_alpha(alpha) == RgbaColor(255, 255, 255, alpha)

\* u16::from_le_bytes(image_buffer[input_offset..input_offset + 2])
u16_from_le_bytes(buf, off) == buf[off + 1] + 256 * buf[off + 2]

\* c | (c << n) of the 4-bit channels (lines 149-152, 226)
OrShiftedLeft(c, n) == BitOr(c, Shl8(c, n), 8)

\* A 5- or 6-bit channel shifted into place and left there (zero fill)
ShiftedOnly(c, n) == c

\* c | (c >> n) of the 5- and 6-bit channels and of the high nibble
\* (lines 163-165, 178-180, 223-225)
OrShiftedRight(c, n) == BitOr(c, Shr(c, n), 8)

\* (raw & 0x0F) | (raw << 4) and (raw & 0xF0) | (raw >> 4) of L4 and A4
\* (lines 190-194, 204-208)
Nibble(raw, off) ==
    IF off % 2 = 0 THEN BitOr(BitAnd(raw, 15, 8), Shl8(raw, 4), 8)
    ELSE BitOr(BitAnd(raw, 240, 8), Shr(raw, 4), 8)

\* The bytes one arm of the match reads, counted from input_offset
\* (an index or a slice past the end of image_buffer panics)
BytesRead(format, off) ==
    CASE format = "RGBA8" -> off + 4
      [] format \in {"RGBA4", "RGB565", "RGBA5551", "LA8"} -> off + 2
      [] format \in {"L8", "A8", "LA4"} -> off + 1
      [] format \in {"L4", "A4"} -> (off \div 2) + 1
      [] OTHER -> 0

\* The colour one arm of the match assigns (lines 131-228)
TexelColor(format, buf, off) ==
    CASE format = "RGBA8" ->
           RgbaColor(buf[off + 4], buf[off + 3], buf[off + 2], buf[off + 1])
      [] format = "RGBA4" ->
           LET raw == u16_from_le_bytes(buf, off)
           IN  RgbaColor(OrShiftedLeft(BitAnd(Shr(raw, 12), 15, 16), 4),
                         OrShiftedLeft(BitAnd(Shr(raw, 8), 15, 16), 4),
                         OrShiftedLeft(BitAnd(Shr(raw, 4), 15, 16), 4),
                         OrShiftedLeft(BitAnd(raw, 15, 16), 4))
      [] format = "RGB565" ->
           LET raw == u16_from_le_bytes(buf, off)
           IN  RgbaColor(OrShiftedRight(BitAnd(Shr(raw, 11), 31, 16) * 8, 5),
                         OrShiftedRight(BitAnd(Shr(raw, 5), 63, 16) * 4, 6),
                         OrShiftedRight(BitAnd(Shr(raw, 0), 31, 16) * 8, 5),
                         255)
      [] format = "RGBA5551" ->
           LET raw == u16_from_le_bytes(buf, off)
           IN  RgbaColor(OrShiftedRight(BitAnd(Shr(raw, 11), 31, 16) * 8, 5),
                         OrShiftedRight(BitAnd(Shr(raw, 6), 31, 16) * 8, 5),
                         OrShiftedRight(BitAnd(Shr(raw, 1), 31, 16) * 8, 5),
                         BitAnd(raw, 1, 16) * 255)
      [] format = "L8" -> grayscale(buf[off + 1])
      [] format = "L4" -> grayscale(Nibble(buf[(off \div 2) + 1], off))
      [] format = "A8" -> from_alpha(buf[off + 1])
      [] format = "A4" -> from_alpha(Nibble(buf[(off \div 2) + 1], off))
      [] format = "LA8" -> grayscale_alpha(buf[off + 2], buf[off + 1])
      [] format = "LA4" ->
           LET high == BitAnd(buf[off + 1], 240, 8)
               low == BitAnd(buf[off + 1], 15, 8)
           IN  RgbaColor(OrShiftedRight(high, 4), OrShiftedRight(high, 4),
                         OrShiftedRight(high, 4), OrShiftedLeft(low, 4))

\* The formats the match has an arm for (lines 132-228)
DecodedFormats ==
    {"RGBA8", "RGBA4", "RGB565", "RGBA5551", "L8", "L4", "A8", "A4", "LA8",
     "LA4"}

\* local_x and local_y swapped
TransposedOffset(x, y, p, w) == x + Shr(p, 3) + (y + BitAnd(p, 7, 32)) * w

\* let local_x = p & 7; let local_y = (p - local_x) >> 3;
\* output_offset = x + local_x + (y + local_y) * width (lines 126-129)
OutputOffset(x, y, p, w) ==
    x + BitAnd(p, 7, 32) + (y + Shr(p - BitAnd(p, 7, 32), 3)) * w

\* The input offset of the k-th pixel of the chunk that starts at input offset
\* off (line 234: input_offset += bytes_per_pixel)
PixelInput(format, off, k) == off + (k - 1) * bytes_per_pixel(format)

\* The output offsets of the 64 rounds of the pixel loop over the chunk at
\* (x, y)
ChunkOffsets(x, y, w) ==
    [k \in 1..64 |-> OutputOffset(x, y, SWIZZLE_LUT[k], w)]

\* What stops the pixel loop in its k-th round (lines 125-234): the Err of the
\* arm of the other formats, an index past the end of image_buffer or an index
\* past the end of output
PixelStops(format, buf, off, offsets, out_len, k) ==
    \/ format \notin DecodedFormats
    \/ BytesRead(format, PixelInput(format, off, k)) > Len(buf)
    \/ offsets[k] >= out_len

\* The rounds of the pixel loop over one chunk that assign to output[i - 1]
RoundsAt(offsets, i) == {k \in 1..64 : offsets[k] + 1 = i}

\* The largest element of a non-empty set of numbers
Last(S) == CHOOSE k \in S : \A j \in S : j <= k

\* output after the 64 rounds of the pixel loop over one chunk
\* (the last assignment to an index is the one that stays)
ChunkOutput(format, buf, off, offsets, pixels) ==
    [i \in 1..Len(pixels) |->
        LET rounds == RoundsAt(offsets, i)
        IN  IF rounds = {} THEN pixels[i]
            ELSE TexelColor(format, buf,
                            PixelInput(format, off, Last(rounds)))]

MaxChunksAcross == 2

\* The sides of the images: 0, one that is not a multiple of 8, and the
\* multiples of 8
Sides == {0, 4} \cup {8 * i : i \in 1..MaxChunksAcross}

\* The bytes of the texel number n of an image whose texel number n has the
\* raw value start + step * n (taken modulo the width of the texel)
TexelValue(start, step, n) == (start + step * n) % 65536

TexelBytes(format, v) ==
    CASE get_bpp(format) = 32 -> <<v % 256, v \div 256, 255 - (v % 256), 128>>
      [] get_bpp(format) = 24 -> <<v % 256, v \div 256, 7>>
      [] get_bpp(format) = 16 -> <<v % 256, v \div 256>>
      [] OTHER -> <<v % 256>>

ImageOf(format, texels, start, step) ==
    IF get_bpp(format) = 4
    THEN [j \in 1..(texels \div 2) |->
             (TexelValue(start, step, 2 * (j - 1)) % 16)
             + 16 * (TexelValue(start, step, 2 * (j - 1) + 1) % 16)]
    ELSE [j \in 1..(texels * bytes_per_pixel(format)) |->
             TexelBytes(format,
                        TexelValue(start, step,
                                   (j - 1) \div bytes_per_pixel(format)))
                 [((j - 1) % bytes_per_pixel(format)) + 1]]

\* The first raw values of the images of one chunk: together the images of
\* the formats with 16-bit texels hold every 16-bit value, those of LA4 every
\* byte, those of L4 and A4 every nibble
Starts(format, w, h) ==
    IF w = 8 /\ h = 8 /\ format \in {"RGBA4", "RGB565", "RGBA5551"}
    THEN {64 * j : j \in 0..1023}
    ELSE IF w = 8 /\ h = 8 /\ format = "LA4" THEN {0, 64, 128, 192}
    ELSE {0}

\* An image with all of its texels, or with its last byte missing
Images(format, w, h) ==
    {ImageOf(format, w * h, start, 1) : start \in Starts(format, w, h)}
    \cup {ImageOf(format, w * h, start, 0) : start \in {0, 42405, 65535}}
    \cup {SubSeq(ImageOf(format, w * h, 0, 1), 1,
                 Len(ImageOf(format, w * h, 0, 1)) - 1)}

\* No arithmetic of decode_swizzled_buffer overflows for the sides of Sides,
\* so the debug and the release build decode alike
InitCodec ==
    /\ overflow_checks = FALSE
    /\ blz_pc = "idle"
    /\ blz_error = ""
    /\ original_input = <<>>
    /\ input_buffer = <<>>
    /\ BlzIdle
    /\ string_section = <<>>
    /\ pool_prev = <<>>
    /\ pool_last = <<>>
    /\ pool_calls = 0
    /\ CgfxIdle
    /\ RegIdle
    /\ codec_pc = "call_decode"
    /\ codec_error = ""
    /\ input_format \in PicaTextureFormats
    /\ width \in Sides
    /\ height \in Sides
    /\ image_buffer \in Images(input_format, width, height)
    /\ input_offset = 0
    /\ output = <<>>
    /\ chunk_x = 0
    /\ chunk_y = 0
    /\ write_count = <<>>
    /\ sub_block = 0
    /\ current_chunk = <<>>
    /\ chunk_writes = <<>>

not_codec == <<overflow_checks, blz_vars, pool_vars, cgfx_vars, reg_vars,
               etc1_vars>>

\* decode_swizzled_buffer, lines 111-118: the ETC1 formats go to decode_etc1,
\* the others get an output of width * height default colours (the product
\* is a u32; it stays far below 2^32 for the sides of Sides)
DecodeSwizzledBegin ==
    /\ codec_pc = "call_decode"
    /\ IF input_format \in {"ETC1A4", "ETC1"}
       THEN /\ codec_pc' = "decode_etc1"
            /\ UNCHANGED <<output, write_count>>
       ELSE /\ codec_pc' = "chunks"
            /\ output' = Repeat(RgbaDefault, width * height)
            /\ write_count' = Repeat(0, width * height)
    /\ UNCHANGED <<codec_error, input_format, width, height, image_buffer,
                   input_offset, chunk_x, chunk_y, not_codec>>

\* for y in (0..height).step_by(8) { for x in (0..width).step_by(8) {
\* (lines 121-122): a chunk is left to decode
ChunkLeft == chunk_y < height /\ chunk_x < width

\* One round of the chunk loops: the 64 rounds of the pixel loop (lines
\* 125-235), then the step to the next chunk
DecodeChunk ==
    /\ codec_pc = "chunks"
    /\ ChunkLeft
    /\ \E offsets \in {ChunkOffsets(chunk_x, chunk_y, width)} :
       \E stops \in {{k \in 1..64 :
                        PixelStops(input_format, image_buffer, input_offset,
                                   offsets, Len(output), k)}} :
           IF stops # {}
           THEN /\ IF input_format \notin DecodedFormats
                   THEN /\ codec_pc' = "err"
                        /\ codec_error' = "Format not implemented yet"
                   ELSE /\ codec_pc' = "panic"
                        /\ codec_error' = "index out of bounds"
                /\ UNCHANGED <<input_offset, output, chunk_x, chunk_y,
                               write_count>>
           ELSE /\ output' = ChunkOutput(input_format, image_buffer,
                                         input_offset, offsets, output)
                /\ write_count' =
                       [i \in 1..Len(output) |->
                           write_count[i] + Cardinality(RoundsAt(offsets, i))]
                /\ input_offset' = PixelInput(input_format, input_offset, 65)
                /\ IF chunk_x + 8 < width
                   THEN /\ chunk_x' = chunk_x + 8
                        /\ UNCHANGED chunk_y
                   ELSE /\ chunk_x' = 0
                        /\ chunk_y' = chunk_y + 8
                /\ UNCHANGED <<codec_pc, codec_error>>
    /\ UNCHANGED <<input_format, width, height, image_buffer, not_codec>>

\* Ok(output) (line 240), once the chunk loops have no round left
DecodeSwizzledReturn ==
    /\ codec_pc = "chunks"
    /\ ~ChunkLeft
    /\ codec_pc' = "returned"
    /\ UNCHANGED <<codec_error, input_format, width, height, image_buffer,
                   input_offset, output, chunk_x, chunk_y, write_count,
                   not_codec>>

NextCodec ==
    \/ DecodeSwizzledBegin
    \/ DecodeChunk
    \/ DecodeSwizzledReturn

SpecCodec == InitCodec /\ [][NextCodec]_vars

\* The formats of the match that are neither ETC1 nor ETC1A4
SwizzledFormats ==
    {"RGBA8", "RGBA4", "RGB565", "RGBA5551", "L8", "A8", "L4", "A4", "LA8",
     "LA4"}

\* width and height are multiples of 8
TileAligned == width % 8 = 0 /\ height % 8 = 0

\* image_buffer holds width * height texels
HoldsEveryTexel == Len(image_buffer) * 8 >= width * height * get_bpp(input_format)

\* The raw value of the texel number n of image_buffer (n counts from 0): a
\* nibble, a byte, a little-endian u16, or the four bytes of RGBA8
RawTexel(n) ==
    CASE get_bpp(input_format) = 4 ->
           IF n % 2 = 0 THEN image_buffer[(n \div 2) + 1] % 16
           ELSE image_buffer[(n \div 2) + 1] \div 16
      [] get_bpp(input_format) = 8 -> image_buffer[n + 1]
      [] get_bpp(input_format) = 16 ->
           image_buffer[2 * n + 1] + 256 * image_buffer[2 * n + 2]
      [] OTHER -> SubSeq(image_buffer, 4 * n + 1, 4 * n + 4)

\* The index in output (counted from 0) of the position that the k-th texel
\* of the tile number t has in the image: tiles go left to right, then top to
\* bottom; inside its tile the texel is at column SWIZZLE_LUT[k] mod 8 and
\* row SWIZZLE_LUT[k] div 8
TilePosition(t, k) ==
    LET tiles_across == width \div 8
        column == 8 * (t % tiles_across) + (SWIZZLE_LUT[k + 1] % 8)
        row == 8 * (t \div tiles_across) + (SWIZZLE_LUT[k + 1] \div 8)
    IN  column + row * width

\* The pixel that the texel number n of the input was decoded to
PixelOf(n) == output[TilePosition(n \div 64, n % 64) + 1]

\* The texels that the chunk loops have gone over
DecodedTexels == input_offset \div bytes_per_pixel(input_format)

\* C11: for every width and height that are multiples of 8 and every
\* supported format other than ETC1 and ETC1A4, decode_swizzled_buffer
\* (given an image_buffer that holds width * height texels) returns, and what
\* it returns has exactly width * height pixels, each index of the output was
\* assigned exactly once, the k-th texel of a tile is at column
\* SWIZZLE_LUT[k] mod 8 and row SWIZZLE_LUT[k] div 8 of that tile, and an
\* input all of whose texels are equal gives a uniform image.
C11_SwizzleIsAPermutation ==
    (TileAligned /\ input_format \in SwizzledFormats) =>
        /\ HoldsEveryTexel => codec_pc \notin {"panic", "err"}
        /\ codec_pc = "returned" =>
              /\ Len(output) = width * height
              /\ \A i \in 1..Len(output) : write_count[i] = 1
              /\ \A n \in 0..(width * height - 1) :
                     PixelOf(n) = TexelColor(input_format, image_buffer,
                                             n * bytes_per_pixel(input_format))
              /\ (\A n \in 0..(width * height - 1) : RawTexel(n) = RawTexel(0))
                     => \A i \in 1..Len(output) : output[i] = output[1]

C11_Witness ==
    /\ codec_pc = "returned"
    /\ input_format = "RGBA8"
    /\ width = 16
    /\ height = 16
    /\ \A i \in 1..256 : write_count[i] = 1
    /\ RawTexel(64) # RawTexel(0)
    /\ output[9] = TexelColor("RGBA8", image_buffer, 4 * 64)

\* The 8-bit values that the 4-, 5- and 6-bit values are expanded to
Expand4(v) == 16 * v + v
Expand5(v) == 8 * v + (v \div 4)
Expand6(v) == 4 * v + (v \div 16)

\* The colour c has the channels of the raw texel value, expanded by bit
\* replication
Replicated(format, raw, c) ==
    CASE format = "RGBA4" ->
           c = RgbaColor(Expand4(raw \div 4096), Expand4((raw \div 256) % 16),
                         Expand4((raw \div 16) % 16), Expand4(raw % 16))
      [] format = "RGB565" ->
           c = RgbaColor(Expand5(raw \div 2048), Expand6((raw \div 32) % 64),
                         Expand5(raw % 32), 255)
      [] format = "RGBA5551" ->
           /\ c.r = Expand5(raw \div 2048)
           /\ c.g = Expand5((raw \div 64) % 32)
           /\ c.b = Expand5((raw \div 2) % 32)
      [] format = "L4" ->
           c.r = Expand4(raw) /\ c.g = Expand4(raw) /\ c.b = Expand4(raw)
      [] format = "A4" -> c.a = Expand4(raw)
      [] format = "LA4" ->
           /\ c.r = Expand4(raw \div 16)
           /\ c.g = Expand4(raw \div 16)
           /\ c.b = Expand4(raw \div 16)
           /\ c.a = Expand4(raw % 16)
      [] OTHER -> TRUE

\* C12: every channel of fewer than 8 bits is expanded by bit replication: a
\* 4-bit value v (RGBA4, L4, A4, LA4) becomes (v << 4) | v, a 5-bit value
\* (red and blue of RGB565, the colours of RGBA5551) (v << 3) | (v >> 2), the
\* 6-bit green of RGB565 (v << 2) | (v >> 4), for every raw texel value; the
\* RGB565 value 0xFFFF gives (255, 255, 255, 255) and the RGBA4 value 0x0000
\* gives (0, 0, 0, 0).
C12_ChannelsAreBitReplicated ==
    (TileAligned /\ codec_pc \in {"chunks", "returned"}) =>
        \A n \in 0..(DecodedTexels - 1) :
            /\ Replicated(input_format, RawTexel(n), PixelOf(n))
            /\ (input_format = "RGB565" /\ RawTexel(n) = 65535)
                   => PixelOf(n) = RgbaColor(255, 255, 255, 255)
            /\ (input_format = "RGBA4" /\ RawTexel(n) = 0)
                   => PixelOf(n) = RgbaColor(0, 0, 0, 0)

C12_Witness ==
    /\ codec_pc = "returned"
    /\ input_format = "RGB565"
    /\ width = 8
    /\ height = 8
    /\ RawTexel(63) = 65535
    /\ RawTexel(62) = 65534
    /\ PixelOf(63) = RgbaColor(255, 255, 255, 255)
    /\ PixelOf(62) = RgbaColor(255, 255, 247, 255)

\* C14: decode_swizzled_buffer returns a decode error for every format other
\* than RGBA8, RGBA4, RGB565, RGBA5551, L8, A8, L4, A4, LA8, LA4, ETC1 and
\* ETC1A4 (that is, for RGB8 and HiLo8), for every width and height,
\* 0 included.
C14_OtherFormatsAreErrors ==
    (/\ input_format \in PicaTextureFormats
     /\ input_format \notin SwizzledFormats \cup {"ETC1", "ETC1A4"}
     /\ codec_pc \notin {"call_decode", "chunks"})
        => codec_pc = "err"

----------------------------------------------------------------------------
(* Claims about the back-references of the BLZ codec                       *)

\* The iteration of the decode loop that this step is copied a back-reference:
\* the flag tested was set and the loop goes on
BackReferenceCopied ==
    /\ blz_pc = "decode_loop"
    /\ blz_pc' = "decode_loop"
    /\ d_result' # d_result
    /\ BitSet(d_flags', d_mask')

\* The 16-bit value of the token that ends at encoded position p, first byte
\* high
TokenBefore(p) == 256 * At(encoded_buffer, p - 2) + At(encoded_buffer, p - 1)

\* C22: a back-reference token with 16-bit value raw (first byte high) copies
\* length = (raw >> 12) + 3 bytes from position = (raw & 0xFFF) + 3 bytes
\* before the end of the output, one byte at a time: every byte appended
\* equals the byte position places before it in the output after the copy, so
\* that for length > position the bytes just written are copied too.
C22_BackReferenceCopiesByteByByte ==
    [][BackReferenceCopied =>
          LET raw == TokenBefore(encoded_position')
              length == (raw \div 4096) + 3
              position == (raw % 4096) + 3
              n == Len(d_result)
          IN  /\ Len(d_result') = n + length
              /\ SubSeq(d_result', 1, n) = d_result
              /\ \A i \in 1..length :
                     d_result'[n + i] = d_result'[n + i - position]]_vars

\* The last iteration copied more bytes than its distance, and the bytes
\* copied are not all equal
C22_Witness ==
    /\ blz_pc = "decode_loop"
    /\ d_mask # 0
    /\ BitSet(d_flags, d_mask)
    /\ encoded_position >= 2
    /\ LET raw == TokenBefore(encoded_position)
           length == (raw \div 4096) + 3
           position == (raw % 4096) + 3
       IN  /\ length > position
           /\ Len(d_result) = length + position
           /\ d_result[Len(d_result)] # d_result[Len(d_result) - 1]

\* The decoder can copy l bytes for a back-reference of distance d at
\* position pos of the reversed input: the l bytes are there, and each equals
\* the byte d places before it
Copyable(buf, pos, d, l) ==
    /\ pos + l <= Len(buf)
    /\ \A j \in 0..(l - 1) : At(buf, pos + j) = At(buf, pos + j - d)

\* The longest such copy, up to BLZ_MAX_CODED bytes
LongestCopyable(buf, pos, d) ==
    CHOOSE l \in 0..BLZ_MAX_CODED :
        /\ Copyable(buf, pos, d, l)
        /\ l = BLZ_MAX_CODED \/ ~Copyable(buf, pos, d, l + 1)

\* The distances search may use at position pos
Distances(pos) == 3..Min2(pos, BLZ_MAX_OFFSET)

\* The longest copy over all distances (0 when there is no distance)
BestCopyable(buf, pos) ==
    CHOOSE l \in 0..BLZ_MAX_CODED :
        /\ \A d \in Distances(pos) : LongestCopyable(buf, pos, d) <= l
        /\ l = 0 \/ \E d \in Distances(pos) : LongestCopyable(buf, pos, d) = l

\* C23: at every position of the reversed input, search returns the longest
\* back-reference that the decoder could copy, with length in [3,18] and
\* distance in [3, min(position, 4098)]; among the distances that give that
\* length it returns the first one when scanning upward from 3; it reports no
\* match only when no back-reference of length >= 3 exists.
C23_SearchFindsLongestCopyable ==
    (blz_pc = "encode_loop" /\ input_position < Len(input_buffer)) =>
        LET found == search(input_buffer, input_position, position_best)
            best == BestCopyable(input_buffer, input_position)
        IN  IF best >= 3
            THEN /\ found.length = best
                 /\ found.position \in Distances(input_position)
                 /\ LongestCopyable(input_buffer, input_position,
                                    found.position) = best
                 /\ \A d \in Distances(input_position) :
                        d < found.position
                            => LongestCopyable(input_buffer, input_position, d)
                                   < best
            ELSE found.length < 3

\* The longest copy for distance d that is no longer than d (the bytes copied
\* are all among the bytes already read)
LongestRead(buf, pos, d) == Min2(LongestCopyable(buf, pos, d), d)

\* The longest such copy over all distances (0 when there is no distance)
BestRead(buf, pos) ==
    CHOOSE l \in 0..BLZ_MAX_CODED :
        /\ \A d \in Distances(pos) : LongestRead(buf, pos, d) <= l
        /\ l = 0 \/ \E d \in Distances(pos) : LongestRead(buf, pos, d) = l

\* C23 (amended): at every position of the reversed input, search returns the
\* longest back-reference whose length does not exceed its distance, with
\* length in [3,18] and distance in [3, min(position, 4098)]; among the
\* distances that give that length it returns the first one when scanning
\* upward from 3; it reports no match only when no such back-reference of
\* length >= 3 exists.
C23_SearchFindsLongestRead ==
    (blz_pc = "encode_loop" /\ input_position < Len(input_buffer)) =>
        LET found == search(input_buffer, input_position, position_best)
            best == BestRead(input_buffer, input_position)
        IN  IF best >= 3
            THEN /\ found.length = best
                 /\ found.length \in 3..18
                 /\ found.position \in Distances(input_position)
                 /\ LongestRead(input_buffer, input_position,
                                found.position) = best
                 /\ \A d \in Distances(input_position) :
                        d < found.position
                            => LongestRead(input_buffer, input_position, d)
                                   < best
            ELSE found.length < 3

\* A position where two distances give the longest length and search returns
\* the smaller
C23_Witness ==
    /\ blz_pc = "encode_loop"
    /\ input_position < Len(input_buffer)
    /\ LET found == search(input_buffer, input_position, position_best)
       IN  /\ found.length >= 3
           /\ \E d \in Distances(input_position) :
                  /\ d > found.position
                  /\ LongestRead(input_buffer, input_position, d) = found.length
           /\ LongestRead(input_buffer, input_position, found.position)
                  = found.length

\* The filler bytes between the encoded bytes and the footer of the container
FillerCount == (4 - ((input_bytes_left + result_bytes_written) % 4)) % 4

\* C28: every buffer returned by blz_encode is a structurally valid input of
\* blz_decode: its length is a multiple of 4 and at least 8, its footer-length
\* byte is 8 plus the number of 0xFF filler bytes (so within [8,11]), its
\* 24-bit encoded-length field equals encoded bytes + footer length and does
\* not exceed the buffer length, and buffer length + the stored size increase
\* equals the length of the original input, with no unsigned underflow.
C28_EncodedContainerIsValid ==
    blz_pc = "encoded" =>
        LET n == Len(container_buffer)
            footer_length == At(container_buffer, n - 5)
        IN  /\ n % 4 = 0
            /\ n >= 8
            /\ footer_length = 8 + FillerCount
            /\ footer_length \in 8..11
            /\ \A i \in 1..FillerCount : At(container_buffer, n - 8 - i) = 255
            /\ Low24At(container_buffer, n - 8)
                   = result_bytes_written + footer_length
            /\ Low24At(container_buffer, n - 8) <= n
            /\ HighByteAt(container_buffer, n - 4) = 0
            /\ n + Low24At(container_buffer, n - 4) = Len(original_input)

----------------------------------------------------------------------------
(* Termination of the BLZ codec                                            *)

\* blz_encode on the buffers of BlzInputs followed by blz_decode on what it
\* returned, and blz_decode on the buffers of DecodeInputs; the code runs
\* without waiting for anything, so a step that can be taken is taken
InitBlzLive == InitBlz \/ InitBlzDecode

BlzFairness ==
    /\ WF_vars(EncodeBegin)
    /\ WF_vars(EncodeStep)
    /\ WF_vars(EncodeFinish)
    /\ WF_vars(DecodeBegin)
    /\ WF_vars(DecodeStep)
    /\ WF_vars(DecodeFinish)

SpecBlzLive == InitBlzLive /\ [][NextBlz]_vars /\ BlzFairness

\* blz_decode has returned or panicked (after blz_encode, where it was called)
BlzEnded == blz_pc \in {"encode_panic", "decode_err", "decode_panic", "decoded"}

\* C29: blz_decode and blz_encode terminate on every input: each iteration
\* of the decode loop either stops or appends at least one byte to an output
\* bounded by the declared result size, and each iteration of the encode loop
\* advances the input position by at least one byte.
C29_CodecTerminates ==
    /\ [][(blz_pc = "decode_loop" /\ blz_pc' = "decode_loop")
             => /\ Len(d_result') >= Len(d_result) + 1
                /\ Len(d_result') <= result_size]_vars
    /\ [][(blz_pc = "encode_loop" /\ blz_pc' = "encode_loop")
             => /\ input_position' >= input_position + 1
                /\ input_position' <= Len(input_buffer)]_vars
    /\ <>BlzEnded

\* blz_encode has consumed an input of more than 8 bytes, and blz_decode
\* has ended after iterations that read tokens and appended bytes
C29_Witness ==
    /\ BlzEnded
    /\ Len(original_input) > 8
    /\ input_position = Len(input_buffer)
    /\ encoded_position > 3
    /\ d_result # <<>>

----------------------------------------------------------------------------
(* Claims about the patches to_buffer applies                              *)

\* The NUL-terminated string that starts at offset start of buf
StringAt(buf, start) == Slice(buf, start, NulAt(buf, start))

\* The output as it stands once the string pool is written behind it
\* (line 400)
WithStrings(buf) == buf \o string_section

\* C25: once a pending string patch (patch_location, s) is applied, the
\* NUL-terminated string at patch_location + patched value in the output
\* with its string pool is exactly s
C25_PatchedPointerReachesStagedString ==
    [][\A reference \in string_references :
          ApplyStringReference(reference) =>
              StringAt(WithStrings(out'),
                       reference[1] + ReadU32(out', reference[1]).lo)
                  = reference[2]]_vars

\* The node the next turn of the dictionary's loop writes
NodeToWrite == dict.v.nodes[w_node + 1]

\* The size of an image record (ImageData::write, texture.rs lines 52-71)
ImageRecordSize == Len(ImageDataBytes(Some(Image(<<>>))))

\* C30: an Image texture without image data is written with an image-data
\* pointer of 0 and no image record, and one with image data is written
\* with a pointer other than 0 to its record
C30_AbsentImageDataIsWrittenAsZero ==
    [][(WriteNode /\ NodeToWrite.value.some /\ w_pc' = "nodes") =>
          IF NodeToWrite.value.v.image.some
          THEN ReadU32(out', Len(out') - ImageRecordSize - 4) # U32Of(0)
          ELSE ReadU32(out', Len(out') - 4) = U32Of(0)]_vars

\* The bytes CgfxTexture::to_writer writes for a texture (texture.rs lines
\* 158-203)
TextureSize(texture) ==
    Len(CgfxTextureToWriter(texture, 0, <<>>, {}, <<>>, {}).bytes)

RECURSIVE RecordsSize(_, _)
\* The bytes the loop of lines 219-233 writes for the first n nodes: each
\* record with its value right behind it
RecordsSize(nodes, n) ==
    IF n = 0 THEN 0
    ELSE RecordsSize(nodes, n - 1) + NodeSize
         + (IF nodes[n].value.some THEN TextureSize(nodes[n].value.v) ELSE 0)

\* Where to_buffer writes the Textures dictionary: behind the header and the
\* sixteen slots (lines 362-367)
DictStart == HeaderSize + 8 * SlotCount

\* The offset of the record of node i (from 0) in the output
WrittenNode(i) == DictStart + DictHeaderSize + RecordsSize(dict.v.nodes, i)

\* The offsets, from the start of a written texture, of its name pointer
\* and of the buffer pointer of its image record (texture.rs lines 174, 193)
TextureNameField == 4 + 8
BufferPointerField == 4 + Len(CgfxTextureCommonBytes(Common(None))) + 4 + 12

\* The field at location holds 0
FieldIsZero(location) == ReadU32(out, location) = U32Of(0)

\* The field at location holds target - location, which is more than 0 and
\* fits a u32
FieldLeadsTo(location, target) ==
    /\ target > location
    /\ ReadU32(out, location) = U32Of(target - location)
    /\ ReadU32(out, location) # U32Of(0)

\* to_buffer is writing or has written the Textures dictionary
WritingTextures ==
    /\ ~w_direct
    /\ container.some
    /\ container.v.textures.some
    /\ dict = container.v.textures
    /\ w_pc \in {"nodes", "string_references", "image_references", "returned"}

\* The name pointer at location: 0 while its patch is pending, and then the
\* offset of the place find gives in the string pool
NamePointerHolds(location, name) ==
    IF \E reference \in string_references : reference[1] = location
    THEN FieldIsZero(location)
    ELSE FieldLeadsTo(location,
                      string_section_start + find(string_section, name))

\* The buffer pointer at location: 0 while its patch is pending, and then
\* an offset into the image section
BufferPointerHolds(location) ==
    IF \E reference \in image_references : reference[1] = location
    THEN FieldIsZero(location)
    ELSE /\ ReadU32(out, location).hi = 0
         /\ ReadU32(out, location).lo > 0
         /\ location + ReadU32(out, location).lo >= image_section_offset

\* The pointer fields of the written node i and of its texture
NodePointersHold(i) ==
    LET node == dict.v.nodes[i + 1]
        at == WrittenNode(i)
        texture == at + NodeSize
    IN /\ IF node.name.some THEN NamePointerHolds(at + 8, node.name.v)
          ELSE FieldIsZero(at + 8)
       /\ IF node.value.some THEN FieldLeadsTo(at + 12, texture)
          ELSE FieldIsZero(at + 12)
       /\ node.value.some =>
            /\ IF node.value.v.common.name.some
               THEN NamePointerHolds(texture + TextureNameField,
                                     node.value.v.common.name.v)
               ELSE FieldIsZero(texture + TextureNameField)
            /\ node.value.v.image.some =>
                 BufferPointerHolds(texture + BufferPointerField)

RECURSIVE ImagesBefore(_, _)
\* The image bytes of the first n nodes, in the order the loop of lines
\* 219-233 meets them
ImagesBefore(nodes, n) ==
    IF n = 0 THEN <<>>
    ELSE ImagesBefore(nodes, n - 1)
         \o (IF nodes[n].value.some /\ nodes[n].value.v.image.some
             THEN nodes[n].value.v.image.v.image_bytes ELSE <<>>)

\* Node i (from 0) has been written and holds a texture with image data
HasWrittenImage(i) ==
    /\ i < w_node
    /\ dict.v.nodes[i + 1].value.some
    /\ dict.v.nodes[i + 1].value.v.image.some

\* The patch location of the image of node i: the buffer pointer of its
\* image record
ImagePatchLocation(i) == WrittenNode(i) + NodeSize + BufferPointerField

\* The image reference recorded for node i: the length of the blob before
\* the image's bytes
RecordedImageReference(i) ==
    <<ImagePatchLocation(i), Len(ImagesBefore(dict.v.nodes, i))>>

\* The IMAG section is written: to_buffer has passed line 427
ImageSectionWritten ==
    /\ ~w_direct
    /\ container.some
    /\ container.v.textures.some
    /\ dict = container.v.textures
    /\ \/ w_pc = "returned"
       \/ /\ w_pc = "panic"
          /\ w_error = "Written file size does not match expected file size"

\* C21: the image reference of every texture image written is the length of
\* the blob before the image's bytes, the blob is the images in write order,
\* the patched field holds image_section_start + recorded offset - patch
\* location with image_section_start = position of the IMAG tag + 8, so that
\* patch location + patched value is the offset of the image's first byte,
\* and the IMAG length field is the blob's length + 8
C21_ImageReferencesReachTheirImages ==
    /\ WritingTextures =>
         /\ image_section = ImagesBefore(dict.v.nodes, w_node)
         /\ w_pc \in {"nodes", "string_references"} =>
              image_references
                  = {RecordedImageReference(i) :
                         i \in {j \in 0..(w_node - 1) : HasWrittenImage(j)}}
    /\ ImageSectionWritten =>
         /\ Slice(out, image_section_offset - 8, image_section_offset - 4)
                = ImagMagic
         /\ ReadU32(out, image_section_offset - 4)
                = U32Of(Len(image_section) + 8)
         /\ Slice(out, image_section_offset, Len(out)) = image_section
         /\ \A i \in 0..(w_node - 1) :
               HasWrittenImage(i) =>
                 LET location == ImagePatchLocation(i)
                     recorded == RecordedImageReference(i)[2]
                     first == location + ReadU32(out, location).lo
                     image_bytes == dict.v.nodes[i + 1].value.v.image.v.image_bytes
                 IN /\ ReadU32(out, location)
                           = U32Of(image_section_offset + recorded - location)
                    /\ Slice(out, first, first + Len(image_bytes)) = image_bytes
                    /\ first = Len(out) - Len(image_section) + recorded

\* to_buffer has returned a buffer with two images, the second behind the
\* first
C21_Witness ==
    /\ ImageSectionWritten
    /\ w_pc = "returned"
    /\ \E i, j \in 0..(w_node - 1) :
          /\ i < j
          /\ HasWrittenImage(i)
          /\ HasWrittenImage(j)
          /\ RecordedImageReference(j)[2] > 0

\* The output after the turn of the loop of lines 390-397 for reference
StringPatched(buf, reference) ==
    IF find(string_section, reference[2]) = NotFound THEN buf
    ELSE write_at_pointer(buf, reference[1],
                          U32Bytes(find(string_section, reference[2])
                                   + string_section_start - reference[1]))

\* The output after the turn of the loop of lines 412-417 for reference
ImagePatched(buf, reference) ==
    write_at_pointer(buf, reference[1],
                     U32Bytes(image_section_offset + reference[2]
                              - reference[1]))

\* The entry of the lowest patch location
LowestOf(references) ==
    CHOOSE r \in references : \A q \in references : r[1] <= q[1]

RECURSIVE AllStringsPatched(_, _)
\* The output after the pending string patches are applied by ascending
\* patch location
AllStringsPatched(buf, references) ==
    IF references = {} THEN buf
    ELSE AllStringsPatched(StringPatched(buf, LowestOf(references)),
                           references \ {LowestOf(references)})

RECURSIVE AllImagesPatched(_, _)
\* The output after the pending image patches are applied by ascending
\* patch location
AllImagesPatched(buf, references) ==
    IF references = {} THEN buf
    ELSE AllImagesPatched(ImagePatched(buf, LowestOf(references)),
                          references \ {LowestOf(references)})

\* C26: the output of to_buffer does not depend on the order in which the
\* pending string patches and image patches are applied: whichever entry a
\* turn of a patch loop takes, the output that the rest of the loop leads to
\* is the same, the entry is applied once and taken off the pending ones,
\* and the loops are left when nothing is pending
C26_PatchOrderDoesNotMatter ==
    [][/\ \A reference \in string_references :
             ApplyStringReference(reference) =>
               /\ w_pc' = w_pc
               /\ out' = StringPatched(out, reference)
               /\ string_references' = string_references \ {reference}
               /\ AllStringsPatched(out', string_references')
                      = AllStringsPatched(out, string_references)
       /\ \A reference \in image_references :
             ApplyImageReference(reference) =>
               /\ w_pc' = w_pc
               /\ out' = ImagePatched(out, reference)
               /\ image_references' = image_references \ {reference}
               /\ AllImagesPatched(out', image_references')
                      = AllImagesPatched(out, image_references)
       /\ WriteStrings => string_references = {}
       /\ WriteImageSection => image_references = {}]_vars

\* to_buffer has returned after patch loops of several entries each: three
\* names and two images
C26_Witness ==
    /\ ImageSectionWritten
    /\ w_pc = "returned"
    /\ Cardinality({i \in 0..(w_node - 1) : HasWrittenImage(i)}) >= 2
    /\ Cardinality({i \in 1..w_node : dict.v.nodes[i].name.some}) >= 2

----------------------------------------------------------------------------
(* src/bcres/image_codec.rs: decode_etc1                                   *)

\* ETC1_X, ETC1_Y, lines 243-244
ETC1_X == <<0, 4, 0, 4>>
ETC1_Y == <<0, 0, 4, 4>>

\* ETC1_LUT, lines 365-374
ETC1_LUT ==
    << <<2, 8, -2, -8>>, <<5, 17, -5, -17>>, <<9, 29, -9, -29>>,
       <<13, 42, -13, -42>>, <<18, 60, -18, -60>>, <<24, 80, -24, -80>>,
       <<33, 106, -33, -106>>, <<47, 183, -47, -183>> >>

\* saturate, lines 376-384
saturate(value) ==
    IF value < 0 THEN 0 ELSE IF value > 255 THEN 255 ELSE value

\* Bit n of the u32 whose bytes, lowest first, are word (0 past its ends)
BitOf(word, n) ==
    IF n < 0 \/ n > 31 THEN 0
    ELSE (word[(n \div 8) + 1] \div 2^(n % 8)) % 2

\* u32::to_be (lines 335, 337) on a little-endian target: the bytes are swapped
to_be(word) == <<word[4], word[3], word[2], word[1]>>

\* decode_etc1_pixel, lines 386-402; msb is block_big_endian << 1, so bit n
\* of msb is bit n - 1 of the block
decode_etc1_pixel(base_color, x, y, block_big_endian, table) ==
    LET index == x * 4 + y
        pixel == IF index < 8
                 THEN ETC1_LUT[table + 1]
                          [BitOf(block_big_endian, index + 24)
                           + 2 * BitOf(block_big_endian, index + 8 + 1 - 1) + 1]
                 ELSE ETC1_LUT[table + 1]
                          [BitOf(block_big_endian, index + 8)
                           + 2 * BitOf(block_big_endian, index - 8 + 1 - 1) + 1]
    IN RgbaColor(saturate(base_color.r + pixel), saturate(base_color.g + pixel),
                 saturate(base_color.b + pixel), 255)

\* flip and diff of a colour block: bits 0 and 1 of color_block_high, whose
\* bytes, lowest first, are high (lines 271, 274)
Flip(high) == BitOf(high, 0) = 1
Diff(high) == BitOf(high, 1) = 1

\* (((color_block_high & 0x07..) >> ..) as i8 >> 5) as i32, lines 284-286:
\* the low three bits of the channel's byte as a signed number
SignedDifference(byte) ==
    IF byte % 8 >= 4 THEN (byte % 8) - 8 ELSE byte % 8

\* One channel of base0 and of base1 from the channel's byte of
\* color_block_high, lines 276-316; as u8 wraps a negative sum
Base0Channel(byte, diff) ==
    IF diff
    THEN BitOr(BitAnd(byte, 248, 8), Shr(BitAnd(byte, 248, 8), 5), 8)
    ELSE BitOr(BitAnd(byte, 240, 8), Shr(BitAnd(byte, 240, 8), 4), 8)

Base1Channel(byte, diff) ==
    IF diff
    THEN LET c == (Shr(BitAnd(byte, 248, 8), 3) + SignedDifference(byte) + 256)
                      % 256
         IN BitOr(Shl8(c, 3), Shr(c, 2), 8)
    ELSE BitOr(Shl8(byte % 16, 4), Shr(Shl8(byte % 16, 4), 4), 8)

\* base0 (which = 0) and base1 (which = 1): red is the highest byte of
\* color_block_high, then green, then blue
BaseColor(high, which) ==
    IF which = 0
    THEN RgbaColor(Base0Channel(high[4], Diff(high)),
                   Base0Channel(high[3], Diff(high)),
                   Base0Channel(high[2], Diff(high)), 255)
    ELSE RgbaColor(Base1Channel(high[4], Diff(high)),
                   Base1Channel(high[3], Diff(high)),
                   Base1Channel(high[2], Diff(high)), 255)

\* table0 and table1, lines 318-319
Table(high, which) ==
    IF which = 0 THEN (high[1] \div 32) % 8 ELSE (high[1] \div 4) % 8

\* local_y and local_x of round k (from 1) of the loops of lines 323-324:
\* two rows of four with flip, four rows of two without
RoundY(flip, k) == IF flip THEN (k - 1) \div 4 ELSE (k - 1) \div 2
RoundX(flip, k) == IF flip THEN (k - 1) % 4 ELSE (k - 1) % 2

\* offset0, line 325
Offset0(local_x, local_y) == local_y * 4 + local_x

\* mutant of Offset1: the second half always lies two columns to the right
Offset1ToTheRight(flip, local_x, local_y) == local_y * 4 + local_x + 2

\* offset1, lines 326-330
Offset1(flip, local_x, local_y) ==
    IF flip THEN (local_y + 2) * 4 + local_x ELSE local_y * 4 + local_x + 2

\* x1 and y1, lines 331-332
X1(flip, local_x) == IF flip THEN local_x ELSE local_x + 2
Y1(flip, local_y) == IF flip THEN local_y + 2 ELSE local_y

\* The assignments to current_chunk of lines 334-337, in the order they are
\* made: two in each of the eight rounds
Assignments(flip) ==
    [j \in 1..16 |->
        LET local_x == RoundX(flip, (j + 1) \div 2)
            local_y == RoundY(flip, (j + 1) \div 2)
        IN IF j % 2 = 1
           THEN [offset |-> Offset0(local_x, local_y), base |-> 0,
                 x |-> local_x, y |-> local_y]
           ELSE [offset |-> Offset1(flip, local_x, local_y), base |-> 1,
                 x |-> X1(flip, local_x), y |-> Y1(flip, local_y)]]

\* The largest member of a set of numbers
Largest(S) == CHOOSE n \in S : \A m \in S : m <= n

\* current_chunk once the assignments are made: an index holds what was
\* assigned to it last, and the default colour if nothing was
ChunkAssigned(writes, low, high) ==
    [t \in 1..16 |->
        LET hits == {j \in 1..Len(writes) : writes[j].offset = t - 1} IN
        IF hits = {} THEN RgbaDefault
        ELSE LET w == writes[Largest(hits)]
             IN decode_etc1_pixel(BaseColor(high, w.base), w.x, w.y,
                                  to_be(low), Table(high, w.base))]

\* output_offset of tile_offset (lines 344-346): the loops walk the block
\* row by row
TileX(x, tile_offset) == x + ETC1_X[sub_block + 1] + (tile_offset % 4)
TileY(y, tile_offset) == y + ETC1_Y[sub_block + 1] + (tile_offset \div 4)
TileOutputOffset(x, y, w, tile_offset) ==
    TileX(x, tile_offset) + TileY(y, tile_offset) * w

\* alpha | alpha << 4 of lines 350-353: the nibble of alpha_block (eight
\* bytes, lowest first) numbered (local_x & 3) * 4 + (local_y & 3)
TileAlpha(alpha_block, local_x, local_y) ==
    LET nibble == (local_x % 4) * 4 + (local_y % 4)
        alpha == (alpha_block[(nibble \div 2) + 1] \div 16^(nibble % 2)) % 16
    IN BitOr(alpha, Shl8(alpha, 4), 8)

\* output after the loops of lines 344-356
BlockWritten(pixels, chunk, alpha_block, x, y, w) ==
    [i \in 1..Len(pixels) |->
        LET tiles == {t \in 0..15 : TileOutputOffset(x, y, w, t) = i - 1} IN
        IF tiles = {} THEN pixels[i]
        ELSE LET t == Largest(tiles)
             IN [chunk[t + 1] EXCEPT
                    !.a = TileAlpha(alpha_block, TileX(x, t), TileY(y, t))]]

\* The bytes a 4x4 block takes: the alpha block with use_alpha, and the two
\* halves of the colour block (lines 256-263)
BlockBytes(format) == IF format = "ETC1A4" THEN 16 ELSE 8

\* u64::MAX, line 259
NoAlpha == Repeat(255, 8)

----------------------------------------------------------------------------
(* The images given to decode_etc1                                         *)

\* Block k of the image of the given flags and seed: its colour block's
\* lowest byte (flip, diff and the two tables) moves on with k
Etc1Block(format, flags, seed, k) ==
    (IF format = "ETC1A4" THEN [i \in 1..8 |-> (16 * i + k + seed) % 256]
     ELSE <<>>)
    \o <<(seed + 37 * k) % 256, (91 + 53 * k) % 256,
         (7 * seed + 201 + 11 * k) % 256, (60 + 149 * k) % 256>>
    \o <<(flags + 3 * k) % 256, (83 * seed + 29 * k + 17) % 256,
         (57 * seed + 101 * k + 200) % 256, (191 * seed + 67 * k + 5) % 256>>

RECURSIVE Etc1Blocks(_, _, _, _)
Etc1Blocks(format, flags, seed, n) ==
    IF n = 0 THEN <<>>
    ELSE Etc1Blocks(format, flags, seed, n - 1)
         \o Etc1Block(format, flags, seed, n - 1)

\* The lowest bytes of the first colour block: flip, diff, and the tables
\* 0 and 5 or 7 and 2
Etc1Flags ==
    {flip + 2 * diff + 4 * tables[2] + 32 * tables[1] :
        flip \in {0, 1}, diff \in {0, 1}, tables \in {<<0, 5>>, <<7, 2>>}}

\* The number of 4x4 blocks the loops of lines 251-255 read for w x h
Etc1BlockCount(w, h) == ((w + 7) \div 8) * ((h + 7) \div 8) * 4

\* An image with all of its blocks, or with its last byte missing
Etc1Images(format, w, h) ==
    {Etc1Blocks(format, flags, seed, Etc1BlockCount(w, h)) :
        flags \in Etc1Flags, seed \in {0, 1}}
    \cup (IF Etc1BlockCount(w, h) = 0 THEN {}
          ELSE {SubSeq(Etc1Blocks(format, 0, 0, Etc1BlockCount(w, h)), 1,
                       Etc1BlockCount(w, h) * BlockBytes(format) - 1)})

InitEtc1 ==
    /\ overflow_checks = FALSE
    /\ blz_pc = "idle"
    /\ blz_error = ""
    /\ original_input = <<>>
    /\ input_buffer = <<>>
    /\ BlzIdle
    /\ string_section = <<>>
    /\ pool_prev = <<>>
    /\ pool_last = <<>>
    /\ pool_calls = 0
    /\ CgfxIdle
    /\ RegIdle
    /\ codec_pc = "call_decode"
    /\ codec_error = ""
    /\ input_format \in {"ETC1", "ETC1A4"}
    /\ width \in Sides
    /\ height \in Sides
    /\ image_buffer \in Etc1Images(input_format, width, height)
    /\ input_offset = 0
    /\ output = <<>>
    /\ chunk_x = 0
    /\ chunk_y = 0
    /\ write_count = <<>>
    /\ sub_block = 0
    /\ current_chunk = <<>>
    /\ chunk_writes = <<>>

not_etc1 == <<overflow_checks, blz_vars, pool_vars, cgfx_vars, reg_vars>>

\* decode_etc1, lines 247-248: the reader and an output of width * height
\* default colours
DecodeEtc1Begin ==
    /\ codec_pc = "decode_etc1"
    /\ codec_pc' = "etc1_blocks"
    /\ output' = Repeat(RgbaDefault, width * height)
    /\ input_offset' = 0
    /\ sub_block' = 0
    /\ UNCHANGED <<codec_error, input_format, width, height, image_buffer,
                   chunk_x, chunk_y, write_count, current_chunk, chunk_writes,
                   not_etc1>>

\* One round of the loop of line 255: a 4x4 block is read (lines 256-263),
\* decoded into current_chunk (lines 265-339) and written into output
\* (lines 341-356); after the fourth block the chunk loops move on
DecodeEtc1Block ==
    /\ codec_pc = "etc1_blocks"
    /\ ChunkLeft
    /\ IF input_offset + BlockBytes(input_format) > Len(image_buffer)
       THEN /\ codec_pc' = "err"
            /\ codec_error' = "failed to fill whole buffer"
            /\ UNCHANGED <<input_offset, output, chunk_x, chunk_y, sub_block,
                           current_chunk, chunk_writes>>
       ELSE \E colors \in {input_offset + BlockBytes(input_format) - 8} :
            \E low \in {[i \in 1..4 |-> At(image_buffer, colors + i - 1)]} :
            \E high \in {[i \in 1..4 |-> At(image_buffer, colors + 4 + i - 1)]} :
            \E alpha_block \in
                   {IF input_format = "ETC1A4"
                    THEN [i \in 1..8 |-> At(image_buffer, input_offset + i - 1)]
                    ELSE NoAlpha} :
            \E writes \in {Assignments(Flip(high))} :
            \E chunk \in {ChunkAssigned(writes, low, high)} :
               /\ input_offset' = input_offset + BlockBytes(input_format)
               /\ chunk_writes' = writes
               /\ current_chunk' = chunk
               /\ IF \E t \in 0..15 :
                        TileOutputOffset(chunk_x, chunk_y, width, t)
                            >= Len(output)
                  THEN /\ codec_pc' = "panic"
                       /\ codec_error' = "index out of bounds"
                       /\ UNCHANGED <<output, chunk_x, chunk_y, sub_block>>
                  ELSE /\ output' = BlockWritten(output, chunk, alpha_block,
                                                 chunk_x, chunk_y, width)
                       /\ sub_block' = (sub_block + 1) % 4
                       /\ IF sub_block < 3
                          THEN UNCHANGED <<chunk_x, chunk_y>>
                          ELSE IF chunk_x + 8 < width
                          THEN /\ chunk_x' = chunk_x + 8
                               /\ UNCHANGED chunk_y
                          ELSE /\ chunk_x' = 0
                               /\ chunk_y' = chunk_y + 8
                       /\ UNCHANGED <<codec_pc, codec_error>>
    /\ UNCHANGED <<input_format, width, height, image_buffer, write_count,
                   not_etc1>>

\* Ok(output) (line 362), once the chunk loops have no round left
DecodeEtc1Return ==
    /\ codec_pc = "etc1_blocks"
    /\ ~ChunkLeft
    /\ codec_pc' = "returned"
    /\ UNCHANGED <<codec_error, input_format, width, height, image_buffer,
                   input_offset, output, chunk_x, chunk_y, write_count,
                   etc1_vars, not_etc1>>

NextEtc1 ==
    \/ DecodeSwizzledBegin
    \/ DecodeEtc1Begin
    \/ DecodeEtc1Block
    \/ DecodeEtc1Return

SpecEtc1 == InitEtc1 /\ [][NextEtc1]_vars

----------------------------------------------------------------------------
(* Claims about decode_etc1                                                *)

\* The two halves of the colour block decoded last: the eight bytes before
\* the reader's position
LastLow == [i \in 1..4 |-> At(image_buffer, input_offset - 8 + i - 1)]
LastHigh == [i \in 1..4 |-> At(image_buffer, input_offset - 4 + i - 1)]

\* The base colour the claim gives the pixel of the given row and column of
\* the block: 0 for the two left columns (the two top rows with flip), else 1
HalfOf(flip, row, column) ==
    IF flip THEN (IF row < 2 THEN 0 ELSE 1) ELSE (IF column < 2 THEN 0 ELSE 1)

\* C24: in every colour block each of the 16 pixels of the 4x4 block is
\* assigned exactly once, from one base colour with its table: without flip
\* the two left columns from base colour 0 with table 0 and the two right
\* columns from base colour 1 with table 1, with flip the two top rows from
\* base colour 0 and the two bottom rows from base colour 1
C24_EveryPixelFromOneHalf ==
    chunk_writes # <<>> =>
        \A row \in 0..3 : \A column \in 0..3 :
            LET half == HalfOf(Flip(LastHigh), row, column)
                hits == {j \in 1..Len(chunk_writes) :
                            chunk_writes[j].offset = row * 4 + column}
            IN /\ Cardinality(hits) = 1
               /\ \A j \in hits : chunk_writes[j].base = half
               /\ current_chunk[row * 4 + column + 1]
                      = decode_etc1_pixel(BaseColor(LastHigh, half), column,
                                          row, to_be(LastLow),
                                          Table(LastHigh, half))

\* A block with flip has been decoded whose base colours and tables differ,
\* and decode_etc1 has returned
C24_Witness ==
    /\ codec_pc = "returned"
    /\ chunk_writes # <<>>
    /\ Flip(LastHigh)
    /\ BaseColor(LastHigh, 0) # BaseColor(LastHigh, 1)
    /\ Table(LastHigh, 0) # Table(LastHigh, 1)
    /\ current_chunk[1] # current_chunk[9]

============================================================================
